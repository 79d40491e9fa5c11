------------------------------- MODULE EfiVars -------------------------------
(***************************************************************************)
(* What EFI variables hold, as bytes: the files of efivarfs, BootOrder and *)
(* BootNext, and the load options Boot#### (crates/core/src/uefi_vars.rs,  *)
(* crates/daemon/src/uefi_vars_linux.rs).                                  *)
(*                                                                         *)
(* The name of a variable is whether it starts with "Boot" and the         *)
(* characters behind: hexadecimal digits are their values, 16 is a plus    *)
(* sign, 17 any other character.                                           *)
(***************************************************************************)
EXTENDS Naturals, Sequences, SequencesExt

Byte == 0..255

\* The number of a boot entry.
U16 == 0..65535

-----------------------------------------------------------------------------
(* Files of efivarfs: attributes, then the value                           *)

Flags == <<"non_volatile", "bootservice_access", "runtime_access", "hardware_error_record",
           "authenticated_write_access", "time_based_authenticated_write_access", "append_write">>

\* EfiAttributes::from_u32: the lowest seven bits.
Attributes(raw) == {Flags[i] : i \in {j \in 1..7 : (raw \div 2^(j - 1)) % 2 = 1}}

\* EfiAttributes::to_u32, as four bytes: bits beyond the seventh are dropped.
AttributeBytes(attrs) ==
  LET Bit(i) == IF Flags[i] \in attrs THEN 2^(i - 1) ELSE 0
  IN <<Bit(1) + Bit(2) + Bit(3) + Bit(4) + Bit(5) + Bit(6) + Bit(7), 0, 0, 0>>

\* write_global: one write of attributes and value.
VariableFile(attrs, payload) == AttributeBytes(attrs) \o payload

\* read_global refuses a file too short for the attributes.
HasPayload(file) == Len(file) >= 4

Payload(file) == SubSeq(file, 5, Len(file))

-----------------------------------------------------------------------------
(* BootOrder and BootNext                                                  *)

\* Mutant: the high byte first.
EncodeBootOrderBig(indices) ==
  [k \in 1..(2 * Len(indices)) |->
     IF k % 2 = 1 THEN indices[(k + 1) \div 2] \div 256 ELSE indices[k \div 2] % 256]

\* Two bytes for each number, the low one first.
EncodeBootOrder(indices) ==
  [k \in 1..(2 * Len(indices)) |->
     IF k % 2 = 1 THEN indices[(k + 1) \div 2] % 256 ELSE indices[k \div 2] \div 256]

IsBootOrder(payload) == Len(payload) % 2 = 0

ParseBootOrder(payload) ==
  [i \in 1..(Len(payload) \div 2) |-> payload[2 * i - 1] + 256 * payload[2 * i]]

\* BootNext is one number.
EncodeSingle(index) == <<index % 256, index \div 256>>

IsSingle(payload) == Len(payload) = 2

ParseSingle(payload) == payload[1] + 256 * payload[2]

-----------------------------------------------------------------------------
(* Load options                                                            *)

Header == 6

\* The 16-bit unit at an offset behind the header.
Unit(payload, i) == payload[Header + 2 * i - 1] + 256 * payload[Header + 2 * i]

\* The units that end a description, counted from 1; a unit cut in half is none.
Terminators(payload) ==
  {i \in 1..((Len(payload) - Header) \div 2) : Unit(payload, i) = 0}

\* parse_boot_entry takes the payload.
IsLoadOption(payload) == Len(payload) >= Header /\ Terminators(payload) # {}

Replacement == 65533

\* String::from_utf16_lossy: pairs of surrogates are one character, others none.
FromUtf16Lossy(units) ==
  LET Lone(high) == IF high = 0 THEN <<>> ELSE <<Replacement>>
      Take(s, u) ==
        CASE u \in 55296..56319 -> [out |-> s.out \o Lone(s.high), high |-> u]
          [] u \in 56320..57343 /\ s.high # 0 ->
               [out |-> Append(s.out, 65536 + 1024 * (s.high - 55296) + (u - 56320)), high |-> 0]
          [] u \in 56320..57343 /\ s.high = 0 ->
               [out |-> Append(s.out, Replacement), high |-> 0]
          [] OTHER -> [out |-> s.out \o Lone(s.high) \o <<u>>, high |-> 0]
      all == FoldLeft(Take, [out |-> <<>>, high |-> 0], units)
  IN all.out \o Lone(all.high)

\* Mutant: the last null ends the description, wherever the path has one.
LoadOptionGreedy(index, payload) ==
  LET end == CHOOSE i \in Terminators(payload) : \A j \in Terminators(payload) : j <= i
  IN [index |-> index,
      active |-> payload[1] % 2 = 1,
      hidden |-> (payload[1] \div 8) % 2 = 1,
      description |-> FromUtf16Lossy([i \in 1..(end - 1) |-> Unit(payload, i)])]

\* parse_boot_entry: two attribute bits, and the units before the first null.
LoadOption(index, payload) ==
  LET end == CHOOSE i \in Terminators(payload) : \A j \in Terminators(payload) : i <= j
  IN [index |-> index,
      active |-> payload[1] % 2 = 1,
      hidden |-> (payload[1] \div 8) % 2 = 1,
      description |-> FromUtf16Lossy([i \in 1..(end - 1) |-> Unit(payload, i)])]

-----------------------------------------------------------------------------
(* The directory                                                           *)

\* u16::from_str_radix(_, 16): a plus sign may precede the digits.
Digits(rest) == IF rest[1] = 16 THEN Tail(rest) ELSE rest

\* list_boot_entries takes the names of "Boot" and four characters that are a number.
IsEntryName(name) ==
  /\ name.boot
  /\ Len(name.rest) = 4
  /\ \A i \in DOMAIN Digits(name.rest) : Digits(name.rest)[i] < 16

IndexOf(name) == FoldLeft(LAMBDA n, d : 16 * n + d, 0, Digits(name.rest))

\* The entries of a set of names, sorted by number, when each can be read.
BootEntries(names, file) ==
  LET parsed == {LoadOption(IndexOf(n), Payload(file[n])) : n \in names}
  IN SetToSortSeq(parsed, LAMBDA a, b : a.index < b.index)
=============================================================================

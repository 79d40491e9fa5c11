---------------------------- MODULE MCInterface -----------------------------
(***************************************************************************)
(* TLC instance of Interface: one request for each pipeline and each way a *)
(* method refuses; a mutable host, one that delegates, one that does not.  *)
(***************************************************************************)
EXTENDS Interface, TLC

Req(method, arg) == [method |-> method, arg |-> arg]

Uki(is, installation) == [is |-> is, installation |-> installation]

Managed == {"absolute", "regular", "trusted owner", "managed directory"}

MCRequest ==
  [value    |-> Req("SetGrubValue", "fine"),
   blacklisted |-> Req("SetGrubDefault", "blacklisted"),
   restore  |-> Req("RestoreSnapshot", "fine"),
   param    |-> Req("AddKernelParam", "fine"),
   swap     |-> Req("SetBootOrder", <<258, 1>>),
   drop     |-> Req("SetBootOrder", <<258>>),
   next1    |-> Req("SetBootNext", 1),
   next9    |-> Req("SetBootNext", 9),
   clear    |-> Req("ClearBootNext", "fine"),
   backup   |-> Req("BackupNvram", "given"),
   fresh    |-> Req("BackupNvram", "fresh"),
   escape   |-> Req("BackupNvram", "outside"),
   sign     |-> Req("SignAndEnrollUki", Uki(Managed, "token")),
   foreign  |-> Req("SignAndEnrollUki", Uki(Managed \union {"symlink"}, "token")),
   entries  |-> Req("ListEfiBootEntries", "fine"),
   getnext  |-> Req("GetBootNext", "fine"),
   backend  |-> Req("GetActiveBackend", "fine")]

\* Clients are alike.
Symmetry == Permutations(Client)

MCHosts ==
  {[markers |-> {"rpm-ostree"}, id |-> "fedora"],
   [markers |-> {"ostree-booted", "rpm-ostree"}, id |-> "fedora"],
   [markers |-> {}, id |-> "nixos"]}

MCPolicies == {KnownActions, {"org.bootcontrol.manage"}}

MCTokens == <<"missing", "token">>

\* Entry 258, 0x0102, differs from the entry with its bytes swapped.
MCBootOrders == {<<1, 258>>}

Load(active, hidden, description, rest, stored) ==
  [active |-> active, hidden |-> hidden, description |-> description, rest |-> rest, stored |-> stored]

\* A description with a zero byte that is no null, a pair of surrogates, and half
\* of one; a path with nulls in it; an option cut within the description.
MCOption ==
  [e \in {1, 258, 9} |->
     CASE e = 1 -> Load(TRUE, FALSE, <<85, 256, 128512>>, <<4, 1, 0, 0, 0, 0>>, 99)
       [] e = 258 -> Load(FALSE, TRUE, <<55296, 85>>, <<>>, 99)
       [] e = 9 -> Load(TRUE, FALSE, <<85, 86>>, <<>>, 9)]

\* BootOrder, Boot0000 with a character more, BootNext, a name without Boot.
MCOtherNames ==
  {[boot |-> TRUE, rest |-> <<17, 17, 13, 14, 17>>],
   [boot |-> TRUE, rest |-> <<0, 0, 0, 0, 17>>],
   [boot |-> TRUE, rest |-> <<17, 14, 17, 17>>],
   [boot |-> FALSE, rest |-> <<0, 0, 0, 0>>]}
=============================================================================

----------------------------- MODULE ConfigStore -----------------------------
(***************************************************************************)
(* What the daemon promises of a configuration file it manages: one whole  *)
(* configuration is live at any time; an update replaces exactly the       *)
(* configuration its client saw, after a snapshot of it exists, and keeps  *)
(* every key it does not name; snapshots only accumulate; nobody else but  *)
(* a package manager changes the file.                                     *)
(***************************************************************************)
CONSTANTS
  Key, Value,
  Change,     \* the sets of assignments an update may make
  Edit        \* configurations a package manager may install

VARIABLES
  live,       \* the live configuration
  saved       \* the configurations held by snapshots

Content == [Key -> Value]

Apply(content, change) ==
  [k \in Key |-> IF k \in DOMAIN change THEN change[k] ELSE content[k]]

\* Only what is live is worth a snapshot.
Save ==
  /\ saved' = saved \union {live}
  /\ UNCHANGED live

\* Compare and swap: the client expects the live configuration, which is saved.
Update(expected, change) ==
  /\ live = expected
  /\ live \in saved
  /\ live' = Apply(expected, change)
  /\ UNCHANGED saved

PackageUpdate ==
  /\ live' \in Edit
  /\ UNCHANGED saved

Init == live \in Content /\ saved = {}

Next ==
  \/ Save
  \/ \E expected \in Content, change \in Change : Update(expected, change)
  \/ PackageUpdate

Spec == Init /\ [][Next]_<<live, saved>>
=============================================================================

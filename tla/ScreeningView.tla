---------------------------- MODULE ScreeningView ----------------------------
(***************************************************************************)
(* What publishing promises to screening, with no versions, rows or        *)
(* snapshots: a set of parties that block, to which files add and from     *)
(* which only a reviewed removal takes away (pipeline/removals.py, 3-6).   *)
(***************************************************************************)
CONSTANT Party        \* <<source, key>> pairs

VARIABLES
  blocked,            \* parties that screening must match
  review              \* parties whose removal is filed for review

Init == blocked = {} /\ review = {}

\* A published file lists more parties.  Parties it no longer lists stay.
List(parties) ==
  /\ blocked' = blocked \cup parties
  /\ UNCHANGED review

\* Somebody asks for a party that blocks to be taken off.
FileRemoval(p) ==
  /\ p \in blocked
  /\ review' = review \cup {p}
  /\ UNCHANGED blocked

\* A reviewer decides on one filed removal; another one for the same party may stay open.
Decide(p) ==
  /\ p \in review
  /\ review' \in {review, review \ {p}}
  /\ blocked' \in {blocked, blocked \ {p}}

Next ==
  \/ \E parties \in SUBSET Party : List(parties)
  \/ \E p \in Party : FileRemoval(p) \/ Decide(p)

Spec == Init /\ [][Next]_<<blocked, review>>
=============================================================================

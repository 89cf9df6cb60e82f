----------------------------- MODULE VaultStore -----------------------------
(***************************************************************************)
(* What the age vault promises, without the directory: one stored image    *)
(* that is replaced as a whole, and a view of it in memory.  An image only *)
(* ever gives way to one with the same records under a new key, or to the  *)
(* records of the view; the view is never dropped unsaved by a lock.       *)
(***************************************************************************)
CONSTANTS Headers, Keys, Paths, Values, Absent, NoFile, NoHeader, NoKey

VARIABLES stored, mode, header, key, records, dirty

view == <<mode, header, key, records, dirty>>
vars == <<stored, mode, header, key, records, dirty>>

Empty == [q \in Paths |-> Absent]
Saved == stored = [header |-> header, key |-> key, records |-> records]

\* The view that opening the storage gives, without a password.
Closed(img) ==
  /\ mode = IF img = NoFile THEN "NotInitialized" ELSE "Locked"
  /\ header = IF img = NoFile THEN NoHeader ELSE img.header
  /\ key = NoKey /\ records = Empty /\ dirty = FALSE

Init == stored = NoFile /\ Closed(NoFile)

Create ==
  /\ stored = NoFile
  /\ stored' \in [header : Headers, key : Keys, records : {Empty}]
  /\ UNCHANGED view

Rekey ==
  /\ stored # NoFile /\ mode # "Unlocked"
  /\ stored' \in [header : Headers, key : Keys, records : {stored.records}]
  /\ UNCHANGED view

Save ==
  /\ mode = "Unlocked"
  /\ stored' = [header |-> header, key |-> key, records |-> records]
  /\ UNCHANGED view

MarkSaved ==
  mode = "Unlocked" /\ Saved /\ dirty' = FALSE /\ UNCHANGED <<stored, mode, header, key, records>>

\* Opening needs the key of the stored payload and keeps the stored header.
Unlock ==
  /\ mode = "Locked" /\ stored # NoFile /\ header = stored.header
  /\ mode' = "Unlocked" /\ key' = stored.key /\ records' = stored.records /\ dirty' = FALSE
  /\ UNCHANGED <<stored, header>>

Edit ==
  /\ mode = "Unlocked"
  /\ \E q \in Paths, v \in Values \cup {Absent} : records' = [records EXCEPT ![q] = v]
  /\ dirty' = TRUE
  /\ UNCHANGED <<stored, mode, header, key>>

Lock ==
  /\ mode = "Unlocked" /\ Saved
  /\ mode' = "Locked" /\ key' = NoKey /\ records' = Empty /\ dirty' = FALSE
  /\ UNCHANGED <<stored, header>>

\* A storage object opened on what is stored: after initialize or recover,
\* which leave a locked vault, or when the process starts again.
Reopen == UNCHANGED stored /\ Closed(stored)'

Next == Create \/ Rekey \/ Save \/ MarkSaved \/ Unlock \/ Edit \/ Lock \/ Reopen

Spec == Init /\ [][Next]_vars
=============================================================================

--------------------------- MODULE MCVaultSession ---------------------------
(***************************************************************************)
(* VaultSession and RelaySignIn for TLC.  They share no variable and each  *)
(* has the run to itself: the relay's desktops take steps while the one of *)
(* VaultSession has taken none, and the other way round.                   *)
(***************************************************************************)
EXTENDS VaultSession, RelaySignIn, TLC

CONSTANTS t1, t2

Symmetry == Permutations(Tasks)

\* The bound on sign-ins is reached and none is left half way.
Done == tries = MaxTries /\ (\A a \in Apps : at[a] = "page") /\ UNCHANGED <<vars, relayVars>>

SessionUnused == ~serial /\ ~open /\ tokens = 0 /\ faults = 0 /\ AllIdle
                 /\ op = [t \in Tasks |-> "lock"]
RelayUnused   == tries = 0 /\ moves = 0 /\ synced /\ shown = [p \in Accounts |-> Nobody]

MCInit == Init /\ RelayInit /\ (serial => RelayUnused)

MCNext ==
  \/ Next /\ RelayUnused /\ UNCHANGED relayVars
  \/ RelayNext /\ SessionUnused /\ UNCHANGED vars
  \/ Done

MCSpec == MCInit /\ [][MCNext]_<<vars, relayVars>>
=============================================================================

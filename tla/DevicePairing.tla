---------------------------- MODULE DevicePairing ----------------------------
(***************************************************************************)
(* Pairing a new device (services/pairing.rs), the two React hooks that    *)
(* drive it (use-pair-initiator.ts, use-pair-joiner.ts) and the channel    *)
(* that both devices share on the relay (routes/pair.ts, a KV store).  The *)
(* initiator opens a channel under a PIN, the joiner posts its public key  *)
(* there, the initiator seals its account and passphrase for that key, the *)
(* joiner opens the payload, creates its vault and is signed in.  Every    *)
(* relay handler reads the channel and later writes the whole record back. *)
(***************************************************************************)
EXTENDS Naturals, FiniteSets

CONSTANTS
  Devices, Users, Pins,
  None,      \* nothing: no user, key, payload, channel or pairing
  Flows,     \* runs of a hook that there may be at a time
  MaxKeys,   \* the largest of the bounds on key pairs drawn
  Setups     \* [devices: those that pair, users: who is signed in where at first,
             \*  keys, faults, edits: bounds]

KeyPairs == 1..MaxKeys

ASSUME PairingAssumption ==
  /\ Devices # {} /\ Pins # {}
  /\ None \notin Users \cup KeyPairs /\ MaxKeys \in Nat
  /\ Setups \subseteq [devices : SUBSET Devices, users : [Devices -> Users \cup {None}],
                      keys : 0..MaxKeys, faults : Nat, edits : Nat]

VARIABLES
  pairSetup,                   \* constant: one of Setups
  account, phrase,             \* auth_session and master_passphrase, by user
  vault, session,              \* whose vault file it is; the session saved in it
  pairing,                     \* AppContext::pairing_session
  pin,                         \* the joining hook's pinRef
  flow,                        \* runs of the hooks, one command of each at a time
  channel,                     \* relay: KV record per PIN
  drawn,                       \* key pairs drawn
  pairFaults, edits,
  entered,                     \* history: per key of an initiator, keys it let in
  clashed,                     \* history: devices where two applies have met
  doubled                      \* history: key pairs of runs that have met on one PIN

device == <<account, phrase, vault, session>>
counters == <<pairFaults, edits>>
pairHistory == <<entered, clashed, doubled>>
pairVars == <<pairSetup, device, pairing, pin, flow, channel, drawn, counters, pairHistory>>

Roles == {"initiator", "joiner"}
Payloads == [user : Users, from : KeyPairs, to : KeyPairs, pin : Pins]
Channels == [user : Users, initiator : KeyPairs, joiner : KeyPairs \cup {None},
             payload : Payloads \cup {None}]
Pairings == [role : Roles, pin : Pins, key : KeyPairs, peer : KeyPairs \cup {None}]
\* A hook is cancelled, or the page that held it is left, and it goes on.
Hooks == {"on", "cancelled", "left"}
FlowSteps == {"idle", "start", "open", "opened", "poll", "finalize", "upload", "store",
              "stored", "join", "claim", "joined", "apply", "initialize", "write", "unlock", "save",
              "enter"}
\* seen is the record of the channel that the command's handler has read.
Flow == [step : FlowSteps, role : Roles, dev : Devices, pin : Pins,
         key : KeyPairs \cup {None}, user : Users \cup {None}, seen : Channels \cup {None},
         payload : Payloads \cup {None}, hook : Hooks]
IdleFlow == [step |-> "idle", role |-> "joiner", dev |-> CHOOSE d \in Devices : TRUE,
             pin |-> CHOOSE p \in Pins : TRUE, key |-> None, user |-> None,
             seen |-> None, payload |-> None, hook |-> "on"]

PairingTypeOK ==
  /\ pairSetup \in Setups
  /\ account \in [Devices -> Users \cup {None}] /\ phrase \in [Devices -> Users \cup {None}]
  /\ vault \in [Devices -> Users \cup {None}] /\ session \in [Devices -> Users \cup {None}]
  /\ pairing \in [Devices -> Pairings \cup {None}]
  /\ pin \in [Devices -> Pins \cup {None}]
  /\ flow \in [Flows -> Flow]
  /\ channel \in [Pins -> Channels \cup {None}]
  /\ drawn \in 0..MaxKeys /\ entered \in [KeyPairs -> SUBSET KeyPairs]
  /\ clashed \subseteq Devices /\ doubled \subseteq KeyPairs
  /\ pairFaults \in 0..pairSetup.faults /\ edits \in 0..pairSetup.edits

PairingInit ==
  /\ pairSetup \in Setups
  /\ account = pairSetup.users /\ phrase = pairSetup.users
  /\ vault = pairSetup.users /\ session = pairSetup.users
  /\ pairing = [d \in Devices |-> None]
  /\ pin = [d \in Devices |-> None]
  /\ flow = [f \in Flows |-> IdleFlow]
  /\ channel = [p \in Pins |-> None]
  /\ drawn = 0 /\ entered = [k \in KeyPairs |-> {}] /\ clashed = {} /\ doubled = {}
  /\ pairFaults = 0 /\ edits = 0

FlowAt(f, step) == flow[f].step = step
Dev(f) == flow[f].dev
Goto(f, step) == flow' = [flow EXCEPT ![f].step = step]
End(f) == flow' = [flow EXCEPT ![f] = IdleFlow]
PairFault == pairFaults < pairSetup.faults /\ pairFaults' = pairFaults + 1 /\ UNCHANGED edits
Edit  == edits < pairSetup.edits /\ edits' = edits + 1 /\ UNCHANGED pairFaults

\* What the hook does with an answer: nothing any more once it is cancelled.
Continue(f, step) == IF flow[f].hook = "cancelled" THEN End(f) ELSE Goto(f, step)

\* The pairing of device d, if it has this role and PIN.
Holds(d, role, p) ==
  pairing[d] # None /\ pairing[d].role = role /\ pairing[d].pin = p

\* The runs of the hook of this role on device d that have not come back.
Running(d, role) == {f \in Flows : ~FlowAt(f, "idle") /\ Dev(f) = d /\ flow[f].role = role}

\* A hook's start, with a fresh key pair.  It makes these runs go on.
BeginFlow(f, d, p, role, step, again) ==
  /\ d \in pairSetup.devices /\ FlowAt(f, "idle") /\ \A g \in Flows : FlowAt(g, "idle") => f <= g
  /\ \A g \in Running(d, role) : flow[g].hook # "on"
  /\ drawn < pairSetup.keys /\ drawn' = drawn + 1
  /\ flow' = [g \in Flows |->
       IF g = f THEN [IdleFlow EXCEPT !.step = step, !.role = role, !.dev = d, !.pin = p,
                        !.key = drawn + 1, !.user = account[d]]
       ELSE IF g \in again THEN [flow[g] EXCEPT !.hook = "on"] ELSE flow[g]]

-----------------------------------------------------------------------------
(* The initiator.                                                          *)

\* start, initiator_start: signed in, with the passphrase at hand.  The dialog
\* starts once, so this hook is a new one.
Start(f, d) ==
  /\ account[d] # None /\ phrase[d] # None
  /\ BeginFlow(f, d, IdleFlow.pin, "initiator", "start", {})
  /\ UNCHANGED <<pairSetup, device, pairing, pin, channel, counters, pairHistory>>

\* /pair/start draws a PIN that no channel has ...
Draw(f) ==
  /\ FlowAt(f, "start")
  /\ \E p \in Pins :
       /\ channel[p] = None /\ flow' = [flow EXCEPT ![f].step = "open", ![f].pin = p]
       /\ LET old == {g \in Running(Dev(f), "initiator") : ~FlowAt(g, "start")}
              met == {g \in old : flow[g].pin = p}
          IN  doubled' = IF met = {} THEN doubled
                         ELSE doubled \cup {flow[g].key : g \in met \cup {f}}
  /\ UNCHANGED <<pairSetup, device, pairing, pin, channel, drawn, counters, entered, clashed>>

\* ... and puts the channel.
Open(f) ==
  /\ FlowAt(f, "open") /\ Goto(f, "opened")
  /\ channel' = [channel EXCEPT ![flow[f].pin] =
       [user |-> flow[f].user, initiator |-> flow[f].key, joiner |-> None, payload |-> None]]
  /\ UNCHANGED <<pairSetup, device, pairing, pin, drawn, counters, pairHistory>>

\* The answer: the device keeps the key pair, also when the user has cancelled.
Opened(f) ==
  /\ FlowAt(f, "opened") /\ Continue(f, "poll")
  /\ pairing' = [pairing EXCEPT ![Dev(f)] =
       [role |-> "initiator", pin |-> flow[f].pin, key |-> flow[f].key, peer |-> None]]
  /\ UNCHANGED <<pairSetup, device, pin, channel, drawn, counters, pairHistory>>

\* pollOnce: nothing new and every error (410, 429, 204, no session) set the next timer.
PollInitiator(f) ==
  /\ FlowAt(f, "poll") /\ flow[f].role = "initiator"
  /\ IF flow[f].hook = "cancelled" THEN End(f)
     ELSE /\ Holds(Dev(f), "initiator", flow[f].pin)
          /\ channel[flow[f].pin] # None /\ channel[flow[f].pin].joiner # None
          /\ flow' = [flow EXCEPT ![f].step = "finalize", ![f].seen = channel[flow[f].pin]]
  /\ UNCHANGED <<pairSetup, device, pairing, pin, channel, drawn, counters, pairHistory>>

\* initiator_finalize: snapshot of key pair, session and passphrase, then sealed.
Finalize(f) ==
  /\ FlowAt(f, "finalize")
  /\ LET d == Dev(f) IN
     IF Holds(d, "initiator", flow[f].pin) /\ account[d] # None /\ phrase[d] # None
       THEN flow' = [flow EXCEPT ![f].step = "upload", ![f].user = account[d],
              ![f].payload = [user |-> account[d], from |-> pairing[d].key,
                              to |-> flow[f].seen.joiner, pin |-> flow[f].pin]]
       ELSE End(f)
  /\ UNCHANGED <<pairSetup, device, pairing, pin, channel, drawn, counters, pairHistory>>

\* /pair/payload: the channel is there and the caller's own; read ...
Upload(f) ==
  /\ FlowAt(f, "upload")
  /\ LET c == channel[flow[f].pin] IN
     IF c # None /\ c.user = flow[f].user
       THEN flow' = [flow EXCEPT ![f].step = "store", ![f].seen = c]
       ELSE End(f)
  /\ UNCHANGED <<pairSetup, device, pairing, pin, channel, drawn, counters, pairHistory>>

\* ... and written back with the payload.
FlowStore(f) ==
  /\ FlowAt(f, "store") /\ Goto(f, "stored")
  /\ channel' = [channel EXCEPT ![flow[f].pin] = [flow[f].seen EXCEPT !.payload = flow[f].payload]]
  /\ UNCHANGED <<pairSetup, device, pairing, pin, drawn, counters, pairHistory>>

\* The answer clears whatever pairing there is by now.
Stored(f) ==
  /\ FlowAt(f, "stored") /\ End(f)
  /\ pairing' = [pairing EXCEPT ![Dev(f)] = None]
  /\ UNCHANGED <<pairSetup, device, pin, channel, drawn, counters, pairHistory>>

-----------------------------------------------------------------------------
(* The joiner.                                                             *)

\* start({pin}), joiner_join, in the dialog of a device without a vault; it is
\* still there when an apply has failed half way.  The refs of the hook are the
\* same, so runs that were cancelled but are not yet back go on.
Join(f, d, p) ==
  /\ phrase[d] = None /\ (vault[d] = None \/ pin[d] # None)
  /\ BeginFlow(f, d, p, "joiner", "join", Running(d, "joiner"))
  /\ pin' = [pin EXCEPT ![d] = p]
  /\ UNCHANGED <<pairSetup, device, pairing, channel, counters, pairHistory>>

\* /pair/join: 410 without a channel, 409 if another key has it; read ...
Claim(f) ==
  /\ FlowAt(f, "join")
  /\ LET c == channel[flow[f].pin] IN
     IF c # None /\ c.joiner = None
       THEN flow' = [flow EXCEPT ![f].step = "claim", ![f].seen = c]
       ELSE End(f)
  /\ UNCHANGED <<pairSetup, device, pairing, pin, channel, drawn, counters, pairHistory>>

\* ... and written back with the key.
Claimed(f) ==
  /\ FlowAt(f, "claim") /\ Goto(f, "joined")
  /\ channel' = [channel EXCEPT ![flow[f].pin] = [flow[f].seen EXCEPT !.joiner = flow[f].key]]
  /\ UNCHANGED <<pairSetup, device, pairing, pin, drawn, counters, pairHistory>>

\* The answer has the initiator's key, and the payload if there is one.
Joined(f) ==
  /\ FlowAt(f, "joined")
  /\ pairing' = [pairing EXCEPT ![Dev(f)] =
       [role |-> "joiner", pin |-> flow[f].pin, key |-> flow[f].key,
        peer |-> flow[f].seen.initiator]]
  /\ IF flow[f].hook = "cancelled" THEN End(f)
     ELSE flow' = [flow EXCEPT ![f].payload = flow[f].seen.payload,
                               ![f].step = IF flow[f].seen.payload = None THEN "poll" ELSE "apply"]
  /\ UNCHANGED <<pairSetup, device, pin, channel, drawn, counters, pairHistory>>

PollJoinerOnce(f) ==
  /\ FlowAt(f, "poll") /\ flow[f].role = "joiner"
  /\ LET c == IF pin[Dev(f)] = None THEN None ELSE channel[pin[Dev(f)]] IN
     IF flow[f].hook # "cancelled" /\ Holds(Dev(f), "joiner", pin[Dev(f)])
        /\ c # None /\ c.payload # None
       THEN flow' = [flow EXCEPT ![f].step = "apply", ![f].pin = pin[Dev(f)],
                                 ![f].payload = c.payload]
       ELSE End(f)
  /\ UNCHANGED <<pairSetup, device, pairing, pin, channel, drawn, counters, pairHistory>>

PollJoiner(f) ==
  /\ FlowAt(f, "poll") /\ flow[f].role = "joiner"
  /\ IF flow[f].hook = "cancelled" THEN End(f)
     ELSE /\ Holds(Dev(f), "joiner", pin[Dev(f)])
          /\ channel[pin[Dev(f)]] # None /\ channel[pin[Dev(f)]].payload # None
          /\ flow' = [flow EXCEPT ![f].step = "apply", ![f].pin = pin[Dev(f)],
                                  ![f].payload = channel[pin[Dev(f)]].payload]
  /\ UNCHANGED <<pairSetup, device, pairing, pin, channel, drawn, counters, pairHistory>>

\* The channel key comes from both key pairs and the PIN: any other payload
\* does not open.
OpensAnything(d, payload) == TRUE

Opens(d, payload) ==
  /\ payload.to = pairing[d].key /\ payload.from = pairing[d].peer
  /\ payload.pin = pairing[d].pin

\* joiner_apply: derive, decrypt.  (The key pair read is that of the pairing.)
Apply(f) ==
  /\ FlowAt(f, "apply")
  /\ IF Holds(Dev(f), "joiner", flow[f].pin) /\ Opens(Dev(f), flow[f].payload)
       THEN flow' = [flow EXCEPT ![f].step = "initialize", ![f].key = pairing[Dev(f)].key]
       ELSE End(f)
  /\ UNCHANGED <<pairSetup, device, pairing, pin, channel, drawn, counters, pairHistory>>

\* initialize_vault: refused if there is a vault; then the empty file is written.
Initialize(f) ==
  /\ FlowAt(f, "initialize")
  /\ IF vault[Dev(f)] = None THEN Goto(f, "write") ELSE End(f)
  /\ clashed' = IF \E g \in Flows \ {f} : Dev(g) = Dev(f) /\ flow[g].step = "write"
                  THEN clashed \cup {Dev(f)} ELSE clashed
  /\ UNCHANGED <<pairSetup, device, pairing, pin, channel, drawn, counters, entered,
                 doubled>>

Write(f) ==
  /\ FlowAt(f, "write") /\ Goto(f, "unlock")
  /\ vault' = [vault EXCEPT ![Dev(f)] = flow[f].payload.user]
  /\ session' = [session EXCEPT ![Dev(f)] = None]
  /\ UNCHANGED <<pairSetup, account, phrase, pairing, pin, channel, drawn,
                 counters, pairHistory>>

\* unlock with the received passphrase, then master_passphrase.
FlowUnlock(f) ==
  /\ FlowAt(f, "unlock")
  /\ IF vault[Dev(f)] = flow[f].payload.user
       THEN /\ phrase' = [phrase EXCEPT ![Dev(f)] = flow[f].payload.user]
            /\ Goto(f, "save")
       ELSE End(f) /\ UNCHANGED phrase
  /\ UNCHANGED <<pairSetup, account, vault, session, pairing, pin, channel, drawn,
                 counters, pairHistory>>

SaveUnchecked(f) ==
  /\ FlowAt(f, "save") /\ Goto(f, "enter")
  /\ \/ phrase[Dev(f)] # None /\ UNCHANGED counters
        /\ session' = [session EXCEPT ![Dev(f)] = flow[f].payload.user]
     \/ PairFault /\ UNCHANGED session
  /\ UNCHANGED <<pairSetup, account, phrase, vault, pairing, pin, channel, drawn, pairHistory>>

\* save_session, flushed; an error, or a vault that is locked by now, ends
\* joiner_apply here.
Save(f) ==
  /\ FlowAt(f, "save")
  /\ \/ /\ phrase[Dev(f)] # None /\ Goto(f, "enter") /\ UNCHANGED counters
        /\ session' = [session EXCEPT ![Dev(f)] = flow[f].payload.user]
     \/ phrase[Dev(f)] = None /\ End(f) /\ UNCHANGED <<session, counters>>
     \/ PairFault /\ End(f) /\ UNCHANGED session
  /\ UNCHANGED <<pairSetup, account, phrase, vault, pairing, pin, channel, drawn, pairHistory>>

\* auth_session, then the pairing is cleared, whatever it is by now.
Enter(f) ==
  /\ FlowAt(f, "enter") /\ End(f)
  /\ account' = [account EXCEPT ![Dev(f)] = flow[f].payload.user]
  /\ pairing' = [pairing EXCEPT ![Dev(f)] = None]
  /\ entered' = [entered EXCEPT ![flow[f].payload.from] = @ \cup {flow[f].key}]
  /\ UNCHANGED <<pairSetup, phrase, vault, session, pin, channel, drawn, counters,
                 clashed, doubled>>

-----------------------------------------------------------------------------
(* What goes on beside.                                                    *)

\* cancel: the hook first, which drops a pending timer but not a poll that is
\* under way; then sync_pair_cancel.
Cancel(d, role) ==
  /\ Edit /\ \E f \in Running(d, role) : flow[f].hook = "on"
  /\ pairing' = [pairing EXCEPT ![d] = None]
  /\ \E timer \in {{}} \cup {{f} : f \in {g \in Running(d, role) : FlowAt(g, "poll")}} :
       flow' = [f \in Flows |->
         IF f \in timer THEN IdleFlow
         ELSE IF f \in Running(d, role) /\ flow[f].hook = "on"
           THEN [flow[f] EXCEPT !.hook = "cancelled"] ELSE flow[f]]
  /\ UNCHANGED <<pairSetup, device, pin, channel, drawn, pairHistory>>

\* vault_lock and vault_unlock (module VaultSession).  The page of the initiator
\* is left: that drops a timer, and a poll that is under way goes on.
LockVault(d) ==
  /\ Edit /\ phrase[d] # None
  /\ account' = [account EXCEPT ![d] = None] /\ phrase' = [phrase EXCEPT ![d] = None]
  /\ \E timers \in SUBSET {f \in Running(d, "initiator") : FlowAt(f, "poll")} :
       flow' = [f \in Flows |->
         IF f \in timers THEN IdleFlow
         ELSE IF f \in Running(d, "initiator") /\ flow[f].hook = "on"
           THEN [flow[f] EXCEPT !.hook = "left"] ELSE flow[f]]
  /\ UNCHANGED <<pairSetup, vault, session, pairing, pin, channel, drawn, pairHistory>>

UnlockVault(d) ==
  /\ Edit /\ phrase[d] = None /\ vault[d] # None
  /\ account' = [account EXCEPT ![d] = session[d]] /\ phrase' = [phrase EXCEPT ![d] = vault[d]]
  /\ UNCHANGED <<pairSetup, vault, session, pairing, pin, flow, channel, drawn, pairHistory>>

\* The process ends and starts again; a request that the relay is serving ends first.
RestartDevice(d) ==
  /\ Edit /\ \A f \in Flows : Dev(f) = d => flow[f].step \notin {"open", "store", "claim"}
  /\ account' = [account EXCEPT ![d] = None] /\ phrase' = [phrase EXCEPT ![d] = None]
  /\ pairing' = [pairing EXCEPT ![d] = None]
  /\ pin' = [pin EXCEPT ![d] = None]
  /\ flow' = [f \in Flows |-> IF Dev(f) = d THEN IdleFlow ELSE flow[f]]
  /\ UNCHANGED <<pairSetup, vault, session, channel, drawn, pairHistory>>

\* Five minutes after the last write the KV record is gone.
Expire(p) ==
  /\ Edit /\ channel[p] # None /\ channel' = [channel EXCEPT ![p] = None]
  /\ UNCHANGED <<pairSetup, device, pairing, pin, flow, drawn, pairHistory>>

\* A request or its answer is lost, and the hook shows the error.  (A poll that
\* fails is tried again.)
Lose(f) ==
  /\ PairFault /\ flow[f].step \in {"start", "upload", "join", "opened", "stored", "joined"}
  /\ End(f)
  /\ UNCHANGED <<pairSetup, device, pairing, pin, channel, drawn, pairHistory>>

Step(f) ==
  \/ Draw(f) \/ Open(f) \/ Opened(f) \/ PollInitiator(f)
  \/ Finalize(f) \/ Upload(f) \/ FlowStore(f) \/ Stored(f)
  \/ Claim(f) \/ Claimed(f) \/ Joined(f) \/ PollJoiner(f)
  \/ Apply(f) \/ Initialize(f) \/ Write(f) \/ FlowUnlock(f) \/ Save(f) \/ Enter(f)

PairingNext ==
  \/ \E f \in Flows, d \in Devices : Start(f, d) \/ \E p \in Pins : Join(f, d, p)
  \/ \E f \in Flows : Step(f) \/ Lose(f)
  \/ \E d \in Devices : \/ LockVault(d) \/ UnlockVault(d) \/ RestartDevice(d)
                        \/ \E r \in Roles : Cancel(d, r)
  \/ \E p \in Pins : Expire(p)

\* The relay answers, tasks that can run do run, and a pending timer fires.
Fairness == \A f \in Flows : WF_pairVars(Step(f))

PairingSpec == PairingInit /\ [][PairingNext]_pairVars /\ Fairness

-----------------------------------------------------------------------------
(* Properties.                                                             *)

\* However many devices and runs of the hooks race for a PIN, and whatever the
\* relay's lost updates make of the channel, an initiator's key pair lets in one
\* joiner at most; except, should an initiator draw a PIN that an earlier run on
\* the same device still polls, the key pairs of the two.
PairsOnce == \A k \in KeyPairs \ doubled : Cardinality(entered[k]) <= 1

\* Nobody is signed in on a device whose vault is another's or lacks the session:
\* not after an apply that failed half way, was cancelled, locked or cut off by
\* the end of the process.  (Two applies that have both found no vault may lose
\* the session, as the second writes an empty file.)
AccountInVault ==
  \A d \in Devices \ clashed :
    account[d] # None => vault[d] = account[d] /\ session[d] = account[d]

Joining(d) == \E p \in Pins : Holds(d, "joiner", p)

\* A joiner that has got into a channel is signed in in the end, whatever order
\* polls, uploads and answers take: if nothing is cancelled, lost, locked or
\* expires, and no third device races it for the channel (pairSetup).
Completes ==
  pairSetup.faults = 0 /\ pairSetup.edits = 0 /\ Cardinality(pairSetup.devices) = 2 =>
    \A d \in Devices : Joining(d) ~> account[d] # None

\* Read as a promise of the source; TLC refutes it (see README.md).

\* The key that has joined a channel stays its joiner (pair.ts, /join).
TakenStays ==
  [][\A p \in Pins :
       channel[p] # None /\ channel[p].joiner # None /\ channel'[p] # None
         => \/ channel'[p].initiator # channel[p].initiator
            \/ channel'[p].joiner = channel[p].joiner]_pairVars
=============================================================================

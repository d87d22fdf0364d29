-------------------------------- MODULE Push --------------------------------
(***************************************************************************)
(* Push notifications: the table of devices, the broadcasts that read the  *)
(* tokens out of it, send a notification to each through a pool of workers *)
(* and then delete the tokens that Firebase (FCM) called dead.             *)
(*                                                                         *)
(* A broadcast runs for minutes on a list of tokens read at its start.     *)
(* Meanwhile apps register and deregister, tokens die, and other           *)
(* broadcasts run: the two Broadcasters of main (daily, streak reminder)   *)
(* and the goroutines of adminNotify.                                      *)
(***************************************************************************)
EXTENDS Naturals, FiniteSets

CONSTANTS
  Device,
  Token,             \* FCM tokens: each of one device, and dead for ever once dead
  Broadcast,         \* the broadcasts that may run at one time
  Worker,            \* the workers of each pool (16 in the code)
  NoDevice,          \* no device: of a worker that waits, of a token not given out
  NoToken,           \* the device has no row
  MayFail,           \* whether calls may fail and the server restart
  MessagesMayBeBad   \* whether FCM may reject the message, not the token

ASSUME PushAssumption ==
  /\ MayFail \in BOOLEAN /\ MessagesMayBeBad \in BOOLEAN
  /\ NoToken \notin Token
  /\ NoDevice \notin Device
  /\ IsFiniteSet(Worker)

Kind == {"all", "streak"}

VARIABLES
  devices,        \* table devices: the token of each device
  alive,          \* the tokens that FCM delivers to
  owner,          \* the device that FCM gave each token to
  pc,             \* each broadcast: idle, sending, or about to delete
  tokens,         \* the list it read, by the device a token was read from
  queue,          \* those of the list not yet handed to a worker
  job,            \* what each of its workers is sending
  tried,          \* history: how often it has sent to each of the list
  sent, dead      \* the results that SendToAll collects

bcVars == <<pc, tokens, queue, job, tried, sent, dead>>
vars == <<devices, alive, owner, pc, tokens, queue, job, tried, sent, dead>>

NoTokens == [d \in Device |-> NoToken]
NoWork == [w \in Worker |-> NoDevice]
Untried == [d \in Device |-> 0]

Init ==
  /\ devices = NoTokens
  /\ alive = {}
  /\ owner = [t \in Token |-> NoDevice]
  /\ pc = [b \in Broadcast |-> "idle"]
  /\ tokens = [b \in Broadcast |-> NoTokens]
  /\ queue = [b \in Broadcast |-> {}]
  /\ job = [b \in Broadcast |-> NoWork]
  /\ tried = [b \in Broadcast |-> Untried]
  /\ sent = [b \in Broadcast |-> 0]
  /\ dead = [b \in Broadcast |-> {}]

-----------------------------------------------------------------------------
(* The apps. *)

\* POST /api/v1/devices: the app sends a new token that FCM gave it, or one it
\* has had for a while.
SaveDevice(d, t) ==
  /\ \/ /\ owner[t] = NoDevice
        /\ owner' = [owner EXCEPT ![t] = d]
        /\ alive' = alive \cup {t}
     \/ owner[t] = d /\ UNCHANGED <<alive, owner>>
  /\ devices' = [devices EXCEPT ![d] = t]
  /\ UNCHANGED bcVars

\* Notifications are switched off in the app.
DeleteDevice(d) ==
  /\ devices' = [devices EXCEPT ![d] = NoToken]
  /\ UNCHANGED <<alive, owner, bcVars>>

\* The app is removed from the phone, or FCM replaces its token.
TokenDies(t) ==
  /\ t \in alive
  /\ alive' = alive \ {t}
  /\ UNCHANGED <<devices, owner, bcVars>>

-----------------------------------------------------------------------------
(* A broadcast. *)

Registered == {d \in Device : devices[d] # NoToken}

\* AllTokens or StreakReminderTokens; the latter lists those of the devices
\* that played yesterday and not today.  An error ends the broadcast.
Start(b) ==
  /\ pc[b] = "idle"
  /\ \E kind \in Kind : \E listed \in SUBSET Registered :
       /\ kind = "all" => listed = Registered
       /\ queue' = [queue EXCEPT ![b] = listed]
       /\ tokens' = [tokens EXCEPT ![b] =
                       [d \in Device |-> IF d \in listed THEN devices[d] ELSE NoToken]]
  /\ pc' = [pc EXCEPT ![b] = "sending"]
  /\ tried' = [tried EXCEPT ![b] = Untried]
  /\ sent' = [sent EXCEPT ![b] = 0]
  /\ dead' = [dead EXCEPT ![b] = {}]
  /\ UNCHANGED <<devices, alive, owner, job>>

\* Mutant: the token stays in the list.
HandOverKeeps(b, w) ==
  /\ pc[b] = "sending"
  /\ job[b][w] = NoDevice
  /\ \E d \in queue[b] : job' = [job EXCEPT ![b][w] = d]
  /\ UNCHANGED <<devices, alive, owner, pc, tokens, queue, tried, sent, dead>>

\* The unbuffered channel: the next token goes to a worker that waits for one.
HandOver(b, w) ==
  /\ pc[b] = "sending"
  /\ job[b][w] = NoDevice
  /\ \E d \in queue[b] :
       /\ queue' = [queue EXCEPT ![b] = @ \ {d}]
       /\ job' = [job EXCEPT ![b][w] = d]
  /\ UNCHANGED <<devices, alive, owner, pc, tokens, tried, sent, dead>>

\* What FCM answers of a token: delivered, dead (UNREGISTERED, NOT_FOUND or
\* INVALID_ARGUMENT, see tokenIsDead), or an error that says nothing of it.
Verdict(t) ==
  (IF t \in alive THEN {"ok"} ELSE {"dead"})
    \cup (IF MessagesMayBeBad THEN {"dead"} ELSE {})
    \cup (IF MayFail THEN {"error"} ELSE {})

\* Mutant: the worker books the device, not its token.
SendBooksDevice(b, w) ==
  LET d == job[b][w] IN
  /\ d # NoDevice
  /\ \E verdict \in Verdict(tokens[b][d]) :
       /\ sent' = [sent EXCEPT ![b] = IF verdict = "ok" THEN @ + 1 ELSE @]
       /\ dead' = [dead EXCEPT ![b] = IF verdict = "dead" THEN @ \cup {d} ELSE @]
  /\ tried' = [tried EXCEPT ![b][d] = @ + 1]
  /\ job' = [job EXCEPT ![b][w] = NoDevice]
  /\ UNCHANGED <<devices, alive, owner, pc, tokens, queue>>

\* Send returns, and the worker books the result under the mutex.
Send(b, w) ==
  LET d == job[b][w] IN
  /\ d # NoDevice
  /\ \E verdict \in Verdict(tokens[b][d]) :
       /\ sent' = [sent EXCEPT ![b] = IF verdict = "ok" THEN @ + 1 ELSE @]
       /\ dead' = [dead EXCEPT ![b] = IF verdict = "dead" THEN @ \cup {tokens[b][d]} ELSE @]
  /\ tried' = [tried EXCEPT ![b][d] = @ + 1]
  /\ job' = [job EXCEPT ![b][w] = NoDevice]
  /\ UNCHANGED <<devices, alive, owner, pc, tokens, queue>>

\* Mutant: it waits until every token has been sent to.
SendToAllWaitsForSent(b) ==
  /\ pc[b] = "sending"
  /\ queue[b] = {}
  /\ \A w \in Worker : job[b][w] = NoDevice
  /\ sent[b] = Cardinality({d \in Device : tokens[b][d] # NoToken})
  /\ pc' = [pc EXCEPT ![b] = IF dead[b] = {} THEN "idle" ELSE "prune"]
  /\ UNCHANGED <<devices, alive, owner, tokens, queue, job, tried, sent, dead>>

\* The channel is closed and every worker has left its loop.
SendToAllReturns(b) ==
  /\ pc[b] = "sending"
  /\ queue[b] = {}
  /\ \A w \in Worker : job[b][w] = NoDevice
  /\ pc' = [pc EXCEPT ![b] = IF dead[b] = {} THEN "idle" ELSE "prune"]
  /\ UNCHANGED <<devices, alive, owner, tokens, queue, job, tried, sent, dead>>

\* Mutant: it deletes the rows of the devices whose listed token
\* is dead.
DeleteTokensByDevice(b) ==
  /\ pc[b] = "prune"
  /\ \/ devices' = [d \in Device |-> IF tokens[b][d] \in dead[b] THEN NoToken ELSE devices[d]]
     \/ MayFail /\ UNCHANGED devices
  /\ pc' = [pc EXCEPT ![b] = "idle"]
  /\ UNCHANGED <<alive, owner, tokens, queue, job, tried, sent, dead>>

\* DELETE FROM devices WHERE token = ANY(dead).  Its error is only logged.
DeleteTokens(b) ==
  /\ pc[b] = "prune"
  /\ \/ devices' = [d \in Device |-> IF devices[d] \in dead[b] THEN NoToken ELSE devices[d]]
     \/ MayFail /\ UNCHANGED devices
  /\ pc' = [pc EXCEPT ![b] = "idle"]
  /\ UNCHANGED <<alive, owner, tokens, queue, job, tried, sent, dead>>

\* The server stops: it does not wait for its broadcasts.
Restart ==
  /\ MayFail
  /\ pc' = [b \in Broadcast |-> "idle"]
  /\ queue' = [b \in Broadcast |-> {}]
  /\ job' = [b \in Broadcast |-> NoWork]
  /\ UNCHANGED <<devices, alive, owner, tokens, tried, sent, dead>>

PoolStep(b) ==
  \/ \E w \in Worker : HandOver(b, w) \/ Send(b, w)
  \/ SendToAllReturns(b)
  \/ DeleteTokens(b)

Next ==
  \/ \E d \in Device : DeleteDevice(d) \/ \E t \in Token : SaveDevice(d, t)
  \/ \E t \in Token : TokenDies(t)
  \/ \E b \in Broadcast : Start(b) \/ PoolStep(b)
  \/ Restart

Spec == Init /\ [][Next]_vars

\* A broadcast that runs goes on: a worker's call to FCM ends, at the latest
\* with the client's timeout of 15 seconds.
Fairness == \A b \in Broadcast : WF_vars(PoolStep(b))
FairSpec == Spec /\ Fairness

-----------------------------------------------------------------------------

TypeOK ==
  /\ devices \in [Device -> Token \cup {NoToken}]
  /\ alive \in SUBSET Token
  /\ owner \in [Token -> Device \cup {NoDevice}]
  /\ pc \in [Broadcast -> {"idle", "sending", "prune"}]
  /\ tokens \in [Broadcast -> [Device -> Token \cup {NoToken}]]
  /\ queue \in [Broadcast -> SUBSET Device]
  /\ job \in [Broadcast -> [Worker -> Device \cup {NoDevice}]]
  /\ tried \in [Broadcast -> [Device -> Nat]]
  /\ sent \in [Broadcast -> Nat]
  /\ dead \in [Broadcast -> SUBSET Token]

Listed(b) == {d \in Device : tokens[b][d] # NoToken}

(* Each listed device is sent one notification, by one worker: when          *)
(* SendToAll returns, it has tried every device of the list exactly once.    *)
OncePerDevice ==
  \A b \in Broadcast :
    /\ pc[b] \in {"sending", "prune"} => \A d \in Device :
         tried[b][d] + Cardinality({w \in Worker : job[b][w] = d}) =
           IF d \in Listed(b) \ queue[b] THEN 1 ELSE 0

(* The clean-up never takes a device that FCM can reach, although it works  *)
(* from a list read minutes ago and devices have registered again since.    *)
(* A token is deleted, says ErrTokenInvalid (push.go, line 111), when FCM   *)
(* reports that it is "artik gecersiz/kayitsiz": no longer valid.           *)
PruneKeepsReachable ==
  [][\A b \in Broadcast : pc[b] = "prune" /\ pc'[b] = "idle" =>
       \A d \in Device : devices[d] \in alive => devices'[d] = devices[d]]_vars

(* Every broadcast comes to its end: the pool of workers does not stall.    *)
BroadcastEnds == \A b \in Broadcast : pc[b] # "idle" ~> pc[b] = "idle"

=============================================================================

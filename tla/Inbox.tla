------------------------------- MODULE Inbox -------------------------------
(***************************************************************************)
(* Notifications: the throttled inbox in the database and the websocket    *)
(* hub in the process.  Calls of the create endpoint and of the two        *)
(* triggers run in threads and only write the inbox.  The event of a       *)
(* submission is handled on the event loop, which it holds until its last  *)
(* notification; for each new one it leaves a task there that sends to     *)
(* the recipient's sockets.                                                *)
(***************************************************************************)
EXTENDS Integers, FiniteSets

CONSTANTS
  Pushes,               \* calls that notify; each is made once
  OnLoop,               \* those made on the event loop, by a submission
  Events,               \* pairs of an event type and an object
  Members,              \* users
  Submitter,            \* the actor of the submissions, whom they skip
  RoleHolders,          \* user_role_bindings of the roles an event is for: [id, user]
  Sockets, Owner,       \* websockets, and the user of each
  Window,               \* ten minutes
  MaxNow                \* bound of the clock

ASSUME InboxAssumption ==
  /\ OnLoop \subseteq Pushes /\ Window \in Nat \ {0} /\ MaxNow \in Nat
  /\ Owner \in [Sockets -> Members] /\ \A h \in RoleHolders : h.user \in Members

VARIABLES
  now,
  inbox,                \* notifications: [event, user, bucket, at, read], read: is read_at set?
  pushPc, pushEvent,
  pending,              \* the recipients a call has still to notify
  pushing,              \* the notification it is inserting
  hub,                  \* the sockets in WebSocketHub._connections
  stage,                \* of the handler of each socket
  alive,                \* the sockets whose connection is up
  tasks                 \* send_user tasks: [user, of, stage, left, got, expected, spoilt]

inboxTable == <<now, inbox>>
calls == <<pushPc, pushEvent, pending, pushing>>
hubVars == <<hub, stage, alive>>
inboxVars == <<inboxTable, calls, hubVars, tasks>>

-------------------------------------------------------------------------------
NoNote == [event |-> "none"]
Of(u) == {s \in Sockets : Owner[s] = u}
Serving(s) == stage[s] = "serving" /\ s \in alive

(* A submission in progress keeps every coroutine from running.            *)
LoopIdle == \A c \in OnLoop : pushPc[c] \notin {"looping", "pushing"}

InboxInit ==
  /\ now = 0 /\ inbox = {}
  /\ pushPc = [c \in Pushes |-> "idle"]
  /\ pushEvent = [c \in Pushes |-> NoNote.event]
  /\ pending = [c \in Pushes |-> {}]
  /\ pushing = [c \in Pushes |-> NoNote]
  /\ hub = {} /\ alive = {} /\ tasks = {}
  /\ stage = [s \in Sockets |-> "new"]

-------------------------------------------------------------------------------
Begin(c, e, recipients) ==
  /\ pushPc[c] = "idle"
  /\ pushPc' = [pushPc EXCEPT ![c] = "looping"]
  /\ pushEvent' = [pushEvent EXCEPT ![c] = e]
  /\ pending' = [pending EXCEPT ![c] = recipients]
  /\ UNCHANGED <<inboxTable, pushing, hubVars, tasks>>

(* create_notification, for any one user.                                  *)
CreateBegin(c, e, u) == c \notin OnLoop /\ Begin(c, e, {[id |-> "request", user |-> u]})

(* The handler of an event lists the bindings: a user with two of them is  *)
(* notified twice, unless throttled.                                       *)
TriggerBegin(c, e) == c \notin OnLoop /\ Begin(c, e, RoleHolders)

SubmissionBegin(c, e) ==
  c \in OnLoop /\ LoopIdle /\ Begin(c, e, {h \in RoleHolders : h.user # Submitter})

(* push_notification: the clock is read first, and gives the bucket.       *)
(* Mutant of Bucket: the minute is not rounded.                            *)
BucketOfMinute(t) == t

Bucket(t) == t - (t % Window)

PushRead(c, h) ==
  /\ pushPc[c] = "looping" /\ h \in pending[c]
  /\ pushPc' = [pushPc EXCEPT ![c] = "pushing"]
  /\ pending' = [pending EXCEPT ![c] = @ \ {h}]
  /\ pushing' = [pushing EXCEPT ![c] =
       [event |-> pushEvent[c], user |-> h.user, bucket |-> Bucket(now), at |-> now,
        read |-> FALSE]]
  /\ UNCHANGED <<inboxTable, pushEvent, hubVars, tasks>>

SameKey(m, n) == m.event = n.event /\ m.user = n.user /\ m.bucket = n.bucket

(* The unique key lets the first commit through.  On the loop a task is    *)
(* left that will send it; a thread has no running loop and leaves none.   *)
PushCommit(c) ==
  LET n == pushing[c]
      send == [user |-> n.user, of |-> <<c, n>>, stage |-> "made", left |-> {}, got |-> {},
               expected |-> {s \in Of(n.user) : Serving(s)},
               spoilt |-> \E s \in hub \cap Of(n.user) : ~Serving(s)]
  IN /\ pushPc[c] = "pushing" /\ ~\E m \in inbox : SameKey(m, n)
     /\ inbox' = inbox \cup {n}
     /\ tasks' = IF c \in OnLoop THEN tasks \cup {send} ELSE tasks
     /\ pushPc' = [pushPc EXCEPT ![c] = "looping"]
     /\ UNCHANGED <<now, pushEvent, pending, pushing, hubVars>>

PushThrottled(c) ==
  /\ pushPc[c] = "pushing" /\ \E m \in inbox : SameKey(m, pushing[c])
  /\ pushPc' = [pushPc EXCEPT ![c] = "looping"]
  /\ UNCHANGED <<inboxTable, pushEvent, pending, pushing, hubVars, tasks>>

PushEnds(c) ==
  /\ \/ pushPc[c] = "looping" /\ pending[c] = {}
     \/ pushPc[c] = "pushing"                       \* any other error of the database
  /\ pushPc' = [pushPc EXCEPT ![c] = "done"]
  /\ UNCHANGED <<inboxTable, pushEvent, pending, pushing, hubVars, tasks>>

(* mark_notification_read_for_user: read_at is set each time.              *)
MarkRead(n) ==
  /\ n \in inbox
  /\ inbox' = (inbox \ {n}) \cup {[n EXCEPT !.read = TRUE]}
  /\ UNCHANGED <<now, calls, hubVars, tasks>>

Minute ==
  /\ now < MaxNow
  /\ now' = now + 1
  /\ UNCHANGED <<inbox, calls, hubVars, tasks>>

-------------------------------------------------------------------------------
(* A socket of the user is not, or no longer, what the hub takes it for.    *)
Spoil(u) == {IF t.user = u /\ t.stage # "over" THEN [t EXCEPT !.spoilt = TRUE] ELSE t : t \in tasks}

(* notifications_ws: WebSocketHub.connect awaits the accept, then adds.    *)
Accept(s) ==
  /\ LoopIdle /\ stage[s] = "new"
  /\ stage' = [stage EXCEPT ![s] = "accepted"]
  /\ alive' = alive \cup {s}
  /\ UNCHANGED <<inboxTable, calls, hub, tasks>>

(* Mutant of Register: the user's name is added in place of the socket.    *)
RegisterUser(s) ==
  /\ LoopIdle /\ stage[s] = "accepted"
  /\ stage' = [stage EXCEPT ![s] = "serving"]
  /\ hub' = hub \cup {Owner[s]}
  /\ tasks' = IF s \in alive THEN tasks ELSE Spoil(Owner[s])
  /\ UNCHANGED <<inboxTable, calls, alive>>

Register(s) ==
  /\ LoopIdle /\ stage[s] = "accepted"
  /\ stage' = [stage EXCEPT ![s] = "serving"]
  /\ hub' = hub \cup {s}
  /\ tasks' = IF s \in alive THEN tasks ELSE Spoil(Owner[s])
  /\ UNCHANGED <<inboxTable, calls, alive>>

PeerGone(s) ==
  /\ s \in alive
  /\ alive' = alive \ {s}
  /\ tasks' = Spoil(Owner[s])
  /\ UNCHANGED <<inboxTable, calls, hub, stage>>

(* The receiver sees the disconnect, and only that exception deregisters.  *)
(* Mutant of Disconnect: the user's entry is popped with its other sockets.*)
DisconnectUser(s) ==
  /\ LoopIdle /\ stage[s] = "serving" /\ s \notin alive
  /\ stage' = [stage EXCEPT ![s] = "over"]
  /\ hub' = hub \ Of(Owner[s])
  /\ UNCHANGED <<inboxTable, calls, alive, tasks>>

Disconnect(s) ==
  /\ LoopIdle /\ stage[s] = "serving" /\ s \notin alive
  /\ stage' = [stage EXCEPT ![s] = "over"]
  /\ hub' = hub \ {s}
  /\ UNCHANGED <<inboxTable, calls, alive, tasks>>

(* A frame without text raises KeyError: the handler ends, the connection  *)
(* is closed, and the socket stays in the hub.                             *)
HandlerFails(s) ==
  /\ LoopIdle /\ Serving(s)
  /\ stage' = [stage EXCEPT ![s] = "over"]
  /\ alive' = alive \ {s}
  /\ tasks' = Spoil(Owner[s])
  /\ UNCHANGED <<inboxTable, calls, hub>>

(* send_user iterates over a copy, in any order, and awaits each send.     *)
Becomes(t, u) == tasks' = (tasks \ {t}) \cup {u}

SendBegin(t) ==
  /\ LoopIdle /\ t.stage = "made"
  /\ Becomes(t, [t EXCEPT !.stage = "sending", !.left = hub \cap Of(t.user)])
  /\ UNCHANGED <<inboxTable, calls, hubVars>>

SendOne(t, s) ==
  /\ LoopIdle /\ t.stage = "sending" /\ s \in t.left
  /\ \/ s \in alive /\ Becomes(t, [t EXCEPT !.left = @ \ {s}, !.got = @ \cup {s}])
     \/ s \notin alive /\ Becomes(t, [t EXCEPT !.left = @ \ {s}])        \* lost
     \/ s \notin alive /\ Becomes(t, [t EXCEPT !.stage = "over"])        \* raises
  /\ UNCHANGED <<inboxTable, calls, hubVars>>

SendEnds(t) ==
  /\ LoopIdle /\ t.stage = "sending" /\ t.left = {}
  /\ Becomes(t, [t EXCEPT !.stage = "over"])
  /\ UNCHANGED <<inboxTable, calls, hubVars>>

InboxNext ==
  \/ \E c \in Pushes :
       \/ \E e \in Events, u \in Members : CreateBegin(c, e, u)
       \/ \E e \in Events : TriggerBegin(c, e) \/ SubmissionBegin(c, e)
       \/ \E h \in pending[c] : PushRead(c, h)
       \/ PushCommit(c) \/ PushThrottled(c) \/ PushEnds(c)
  \/ \E n \in inbox : MarkRead(n)
  \/ Minute
  \/ \E s \in Sockets :
       Accept(s) \/ Register(s) \/ PeerGone(s) \/ Disconnect(s) \/ HandlerFails(s)
  \/ \E t \in tasks :
       SendBegin(t) \/ SendEnds(t) \/ \E s \in Sockets : SendOne(t, s)

InboxSpec == InboxInit /\ [][InboxNext]_inboxVars

-------------------------------------------------------------------------------
Notes == [event : Events, user : Members, bucket : Nat, at : Nat, read : BOOLEAN]

(* Every variable has its type.                                            *)
InboxTypeOK ==
  /\ now \in 0..MaxNow /\ inbox \subseteq Notes
  /\ pushPc \in [Pushes -> {"idle", "looping", "pushing", "done"}]
  /\ pushEvent \in [Pushes -> Events \cup {NoNote.event}]
  /\ pending \in [Pushes -> SUBSET (RoleHolders \cup [id : {"request"}, user : Members])]
  /\ pushing \in [Pushes -> Notes \cup {NoNote}]
  /\ hub \subseteq Sockets /\ alive \subseteq Sockets
  /\ stage \in [Sockets -> {"new", "accepted", "serving", "over"}]
  /\ tasks \subseteq [user : Members, of : Pushes \X Notes, stage : {"made", "sending", "over"},
                      left : SUBSET Sockets, got : SUBSET Sockets, expected : SUBSET Sockets,
                      spoilt : BOOLEAN]

Alike(m, n) == m.event = n.event /\ m.user = n.user

(* Whoever notifies whom at the same time, a user has at most two          *)
(* notifications of one event and object within ten minutes: of three, one *)
(* is ten minutes after another.                                           *)
RateBounded ==
  \A l, m, n \in inbox : Alike(l, m) /\ Alike(m, n) /\ l # m /\ m # n /\ l # n =>
    \E x, y \in {l, m, n} : y.at - x.at >= Window

(* A task that is over has sent to every socket that was served when the   *)
(* notification was made and still is, whoever connected or disconnected   *)
(* meanwhile, unless the hub held a dead socket of the user at some time   *)
(* in between.                                                             *)
OpenSocketsServed ==
  \A t \in tasks : t.stage = "over" /\ ~t.spoilt =>
    {s \in t.expected : Serving(s)} \subseteq t.got

(* docs/design.md:176: nothing is sent while the last notification of the  *)
(* same recipient, event and object is less than ten minutes old.          *)
ThrottledTenMinutes ==
  \A m, n \in inbox : Alike(m, n) /\ m # n => \E x, y \in {m, n} : y.at - x.at >= Window
===============================================================================

----------------------------- MODULE InboxProofs ------------------------------
(***************************************************************************)
(* Theorems about Inbox, for any calls, sockets, events and users and any  *)
(* window of the throttle.                                                 *)
(***************************************************************************)
EXTENDS Inbox, TLAPS

(* What is written is what the call has prepared, and a bucket is the last *)
(* multiple of the window.                                                 *)
Prepared ==
  \A c \in Pushes :
    /\ pushPc[c] \in {"looping", "pushing"} => pushEvent[c] \in Events
    /\ pushPc[c] = "pushing" =>
         pushing[c] \in Notes /\ pushing[c].bucket = Bucket(pushing[c].at)

OnePerBucket ==
  /\ \A n \in inbox : n.bucket = Bucket(n.at)
  /\ \A m, n \in inbox : SameKey(m, n) => m = n

InboxInv == InboxTypeOK /\ Prepared /\ OnePerBucket

(* The arithmetic of the buckets.                                          *)
LEMMA BucketsApart ==
  ASSUME NEW s \in Nat, NEW t \in Nat
  PROVE  /\ Bucket(t) \in Nat /\ Bucket(t) <= t /\ t < Bucket(t) + Window
         /\ Bucket(s) < Bucket(t) => Bucket(s) + Window <= Bucket(t)
<1> DEFINE p == s \div Window
           q == t \div Window
<1>1. Window \in Nat \ {0}
  BY InboxAssumption
<1>2. p \in Nat /\ q \in Nat
  BY <1>1
<1>3. /\ s = Window * p + (s % Window) /\ (s % Window) \in 0 .. (Window - 1)
      /\ t = Window * q + (t % Window) /\ (t % Window) \in 0 .. (Window - 1)
  BY <1>1
<1>4. Bucket(s) = Window * p /\ Bucket(t) = Window * q /\ Window * q \in Nat
  <2>1. Window * p \in Nat /\ Window * q \in Nat
    BY <1>1, <1>2
  <2> HIDE DEF p, q
  <2> QED
    BY <1>1, <1>2, <1>3, <2>1 DEF Bucket
<1>5. ASSUME Window * p < Window * q
      PROVE  Window * p + Window <= Window * q
  <2> HIDE DEF p, q
  <2>1. p < q
    BY <1>1, <1>2, <1>5
  <2>2. q - p - 1 \in Nat
    BY <1>2, <2>1
  <2>3. Window * (q - p - 1) \in Nat /\ Window * (q - p - 1) = Window * q - Window * p - Window
    BY <1>1, <1>2, <2>2
  <2>4. Window * p \in Nat /\ Window * q \in Nat
    BY <1>1, <1>2
  <2> QED
    BY <1>1, <2>3, <2>4
<1> HIDE DEF p, q
<1> QED
  BY <1>1, <1>2, <1>3, <1>4, <1>5

LEMMA InitInbox == InboxInit => InboxInv
BY InboxAssumption DEF InboxInit, InboxInv, InboxTypeOK, Prepared, OnePerBucket, NoNote

(* A step of one call in its own variables.                                *)
LEMMA StepInbox == InboxInv /\ [InboxNext]_inboxVars => InboxInv'
<1> SUFFICES ASSUME InboxInv, [InboxNext]_inboxVars PROVE InboxInv'
  OBVIOUS
<1>0. InboxTypeOK /\ Prepared /\ OnePerBucket
  BY DEF InboxInv
<1> USE DEF InboxTypeOK
<1>1. ASSUME NEW c \in Pushes, NEW e \in Events,
             NEW R \in SUBSET (RoleHolders \cup [id : {"request"}, user : Members]), Begin(c, e, R)
      PROVE  InboxInv'
  <2>1. InboxTypeOK'
    BY <1>0, <1>1 DEF Begin, inboxTable, hubVars
  <2>2. Prepared' /\ OnePerBucket'
    BY <1>0, <1>1 DEF Begin, inboxTable, Prepared, OnePerBucket
  <2> QED
    BY <2>1, <2>2 DEF InboxInv
<1>2. ASSUME NEW c \in Pushes, NEW h \in pending[c], PushRead(c, h)
      PROVE  InboxInv'
  <2>1. h.user \in Members
    BY <1>0, InboxAssumption
  <2>2. now \in Nat /\ Bucket(now) \in Nat /\ pushEvent[c] \in Events
    <3>1. now \in Nat
      BY <1>0, InboxAssumption
    <3> QED
      BY <1>0, <1>2, <3>1, BucketsApart DEF PushRead, Prepared
  <2> DEFINE n == [event |-> pushEvent[c], user |-> h.user, bucket |-> Bucket(now), at |-> now,
                   read |-> FALSE]
  <2>3. n \in Notes /\ n.bucket = Bucket(n.at)
    BY <2>1, <2>2 DEF Notes
  <2>4. /\ pushing' = [pushing EXCEPT ![c] = n]
        /\ pushPc' = [pushPc EXCEPT ![c] = "pushing"] /\ pending' = [pending EXCEPT ![c] = @ \ {h}]
        /\ UNCHANGED <<now, inbox, pushEvent, hub, stage, alive, tasks>> /\ pushPc[c] = "looping"
    BY <1>2 DEF PushRead, inboxTable, hubVars
  <2> HIDE DEF n
  <2>5. InboxTypeOK'
    BY <1>0, <2>3, <2>4
  <2>6. Prepared' /\ OnePerBucket'
    BY <1>0, <2>3, <2>4 DEF Prepared, OnePerBucket
  <2> QED
    BY <2>5, <2>6 DEF InboxInv
<1>3. ASSUME NEW c \in Pushes, PushCommit(c)
      PROVE  InboxInv'
  <2> DEFINE n == pushing[c]
             send == [user |-> n.user, of |-> <<c, n>>, stage |-> "made", left |-> {}, got |-> {},
                      expected |-> {s \in Of(n.user) : Serving(s)},
                      spoilt |-> \E s \in hub \cap Of(n.user) : ~Serving(s)]
  <2>1. n \in Notes /\ n.bucket = Bucket(n.at) /\ \A m \in inbox : ~SameKey(m, n)
    BY <1>0, <1>3 DEF PushCommit, Prepared
  <2>2. {s \in Of(n.user) : Serving(s)} \in SUBSET Sockets
    BY DEF Of
  <2>3. (\E s \in hub \cap Of(n.user) : ~Serving(s)) \in BOOLEAN
    OBVIOUS
  <2>4. send \in [user : Members, of : Pushes \X Notes, stage : {"made", "sending", "over"},
                  left : SUBSET Sockets, got : SUBSET Sockets, expected : SUBSET Sockets,
                  spoilt : BOOLEAN]
    BY <2>1, <2>2, <2>3 DEF Notes
  <2>5. /\ inbox' = inbox \cup {n} /\ tasks' \subseteq tasks \cup {send}
        /\ pushPc' = [pushPc EXCEPT ![c] = "looping"] /\ pushPc[c] = "pushing"
        /\ UNCHANGED <<now, pushEvent, pending, pushing, hub, stage, alive>>
    BY <1>3 DEF PushCommit, hubVars
  <2> HIDE DEF send
  <2>6. InboxTypeOK'
    BY <1>0, <2>1, <2>4, <2>5
  <2>7. Prepared'
    BY <1>0, <2>5 DEF Prepared
  <2>8. OnePerBucket'
    BY <1>0, <2>1, <2>5 DEF OnePerBucket, SameKey
  <2> QED
    BY <2>6, <2>7, <2>8 DEF InboxInv
<1>4. ASSUME NEW c \in Pushes, PushThrottled(c) \/ PushEnds(c)
      PROVE  InboxInv'
  <2>1. /\ \/ pushPc[c] = "pushing" /\ pushPc' = [pushPc EXCEPT ![c] = "looping"]
           \/ pushPc' = [pushPc EXCEPT ![c] = "done"]
        /\ UNCHANGED <<now, inbox, pushEvent, pending, pushing, hub, stage, alive, tasks>>
    BY <1>4 DEF PushThrottled, PushEnds, inboxTable, hubVars
  <2>2. InboxTypeOK'
    BY <1>0, <2>1
  <2>3. Prepared' /\ OnePerBucket'
    BY <1>0, <2>1 DEF Prepared, OnePerBucket
  <2> QED
    BY <2>2, <2>3 DEF InboxInv
<1>5. ASSUME NEW n \in inbox, MarkRead(n)
      PROVE  InboxInv'
  <2> DEFINE m == [n EXCEPT !.read = TRUE]
  <2>1. n \in Notes
    BY <1>0
  <2>2. m \in Notes /\ m.bucket = n.bucket /\ m.at = n.at /\ m.event = n.event /\ m.user = n.user
    BY <2>1 DEF Notes
  <2>3. /\ inbox' = (inbox \ {n}) \cup {m}
        /\ UNCHANGED <<now, pushPc, pushEvent, pending, pushing, hub, stage, alive, tasks>>
    BY <1>5 DEF MarkRead, calls, hubVars
  <2> HIDE DEF m
  <2>4. InboxTypeOK'
    BY <1>0, <2>2, <2>3
  <2>5. Prepared'
    BY <1>0, <2>3 DEF Prepared
  <2>6. OnePerBucket'
    BY <1>0, <2>2, <2>3 DEF OnePerBucket, SameKey
  <2> QED
    BY <2>4, <2>5, <2>6 DEF InboxInv
<1>6. CASE Minute
  BY <1>0, <1>6, InboxAssumption DEF Minute, calls, hubVars, InboxInv, Prepared, OnePerBucket
<1>7. ASSUME NEW s \in Sockets,
             Accept(s) \/ Register(s) \/ PeerGone(s) \/ Disconnect(s) \/ HandlerFails(s)
      PROVE  InboxInv'
  <2>1. /\ hub' \subseteq Sockets /\ alive' \subseteq Sockets
        /\ stage' \in [Sockets -> {"new", "accepted", "serving", "over"}]
        /\ tasks' = tasks \/ tasks' = Spoil(Owner[s])
        /\ UNCHANGED <<now, inbox, pushPc, pushEvent, pending, pushing>>
    <3>1. CASE Accept(s)
      BY <1>0, <3>1 DEF Accept, inboxTable, calls
    <3>2. CASE Register(s)
      BY <1>0, <3>2 DEF Register, inboxTable, calls
    <3>3. CASE PeerGone(s)
      BY <1>0, <3>3 DEF PeerGone, inboxTable, calls
    <3>4. CASE Disconnect(s)
      BY <1>0, <3>4 DEF Disconnect, inboxTable, calls
    <3>5. CASE HandlerFails(s)
      BY <1>0, <3>5 DEF HandlerFails, inboxTable, calls
    <3> QED
      BY <1>7, <3>1, <3>2, <3>3, <3>4, <3>5
  <2>2. Spoil(Owner[s]) \subseteq
          [user : Members, of : Pushes \X Notes, stage : {"made", "sending", "over"},
           left : SUBSET Sockets, got : SUBSET Sockets, expected : SUBSET Sockets,
           spoilt : BOOLEAN]
    <3> DEFINE Tasks == [user : Members, of : Pushes \X Notes, stage : {"made", "sending", "over"},
                         left : SUBSET Sockets, got : SUBSET Sockets, expected : SUBSET Sockets,
                         spoilt : BOOLEAN]
    <3>1. ASSUME NEW t \in tasks
          PROVE  t \in Tasks /\ [t EXCEPT !.spoilt = TRUE] \in Tasks
      <4>1. t \in Tasks
        BY <1>0
      <4> DEFINE yes == TRUE
      <4>2. yes \in BOOLEAN
        OBVIOUS
      <4> HIDE DEF yes
      <4>3. [t EXCEPT !.spoilt = yes] \in Tasks
        BY <4>1, <4>2
      <4> QED
        BY <4>1, <4>3 DEF yes
    <3> HIDE DEF Tasks
    <3>2. Spoil(Owner[s]) \subseteq Tasks
      BY <3>1 DEF Spoil
    <3> QED
      BY <3>2 DEF Tasks
  <2>3. InboxTypeOK'
    BY <1>0, <2>1, <2>2
  <2>4. Prepared' /\ OnePerBucket'
    BY <1>0, <2>1 DEF Prepared, OnePerBucket
  <2> QED
    BY <2>3, <2>4 DEF InboxInv
<1>8. ASSUME NEW t \in tasks, SendBegin(t) \/ SendEnds(t) \/ \E s \in Sockets : SendOne(t, s)
      PROVE  InboxInv'
  <2> DEFINE Tasks == [user : Members, of : Pushes \X Notes, stage : {"made", "sending", "over"},
                       left : SUBSET Sockets, got : SUBSET Sockets, expected : SUBSET Sockets,
                       spoilt : BOOLEAN]
  <2>1. t \in Tasks
    BY <1>0
  <2>2. \E u \in Tasks : tasks' = (tasks \ {t}) \cup {u}
    <3>1. CASE SendBegin(t)
      <4>1. [t EXCEPT !.stage = "sending", !.left = hub \cap Of(t.user)] \in Tasks
        BY <1>0, <2>1
      <4> QED
        BY <3>1, <4>1 DEF SendBegin, Becomes
    <3>2. CASE SendEnds(t)
      BY <2>1, <3>2 DEF SendEnds, Becomes
    <3>3. ASSUME NEW s \in Sockets, SendOne(t, s)
          PROVE  \E u \in Tasks : tasks' = (tasks \ {t}) \cup {u}
      <4>1. /\ [t EXCEPT !.left = @ \ {s}, !.got = @ \cup {s}] \in Tasks
            /\ [t EXCEPT !.left = @ \ {s}] \in Tasks /\ [t EXCEPT !.stage = "over"] \in Tasks
        BY <2>1
      <4> QED
        BY <3>3, <4>1 DEF SendOne, Becomes
    <3> QED
      BY <1>8, <3>1, <3>2, <3>3
  <2>3. UNCHANGED <<now, inbox, pushPc, pushEvent, pending, pushing, hub, stage, alive>>
    BY <1>8 DEF SendBegin, SendEnds, SendOne, inboxTable, calls, hubVars
  <2>4. InboxTypeOK'
    BY <1>0, <2>2, <2>3
  <2>5. Prepared' /\ OnePerBucket'
    BY <1>0, <2>3 DEF Prepared, OnePerBucket
  <2> QED
    BY <2>4, <2>5 DEF InboxInv
<1>9. CASE UNCHANGED inboxVars
  BY <1>0, <1>9 DEF inboxVars, inboxTable, calls, hubVars, InboxInv, Prepared, OnePerBucket
<1>10. ASSUME NEW c \in Pushes, NEW e \in Events,
              TriggerBegin(c, e) \/ SubmissionBegin(c, e) \/ \E u \in Members : CreateBegin(c, e, u)
       PROVE  InboxInv'
  <2>1. \E R \in SUBSET (RoleHolders \cup [id : {"request"}, user : Members]) : Begin(c, e, R)
    <3> DEFINE All == RoleHolders \cup [id : {"request"}, user : Members]
    <3>1. ASSUME NEW u \in Members, CreateBegin(c, e, u)
          PROVE  \E R \in SUBSET All : Begin(c, e, R)
      <4>1. {[id |-> "request", user |-> u]} \in SUBSET All
        OBVIOUS
      <4> HIDE DEF All
      <4> QED
        BY <3>1, <4>1 DEF CreateBegin
    <3>2. CASE TriggerBegin(c, e)
      <4>1. RoleHolders \in SUBSET All
        OBVIOUS
      <4> HIDE DEF All
      <4> QED
        BY <3>2, <4>1 DEF TriggerBegin
    <3>3. CASE SubmissionBegin(c, e)
      <4>1. {h \in RoleHolders : h.user # Submitter} \in SUBSET All
        OBVIOUS
      <4> HIDE DEF All
      <4> QED
        BY <3>3, <4>1 DEF SubmissionBegin
    <3> QED
      BY <1>10, <3>1, <3>2, <3>3
  <2> QED
    BY <1>1, <2>1
<1> QED
  BY <1>2, <1>3, <1>4, <1>5, <1>6, <1>7, <1>8, <1>9, <1>10 DEF InboxNext

LEMMA InboxInvariance == InboxSpec => []InboxInv
BY InitInbox, StepInbox, PTL DEF InboxSpec

(* Every variable has its type.                                            *)
THEOREM InboxTypes == InboxSpec => []InboxTypeOK
BY InboxInvariance, PTL DEF InboxInv

(* A user has at most two notifications of one event within ten minutes:   *)
(* three are in three buckets, of which the first and the last are two     *)
(* windows apart.                                                          *)
THEOREM RateKept == InboxSpec => []RateBounded
<1>1. InboxInv => RateBounded
  <2> SUFFICES ASSUME InboxInv, NEW l \in inbox, NEW m \in inbox, NEW n \in inbox,
                      Alike(l, m), Alike(m, n), l # m, m # n, l # n
               PROVE  \E x, y \in {l, m, n} : y.at - x.at >= Window
    BY DEF RateBounded
  <2>1. /\ l.at \in Nat /\ m.at \in Nat /\ n.at \in Nat
        /\ l.bucket = Bucket(l.at) /\ m.bucket = Bucket(m.at) /\ n.bucket = Bucket(n.at)
    BY DEF InboxInv, InboxTypeOK, OnePerBucket, Notes
  <2>2. l.bucket # m.bucket /\ m.bucket # n.bucket /\ l.bucket # n.bucket
    BY DEF InboxInv, OnePerBucket, SameKey, Alike
  <2>3. ASSUME NEW x \in {l, m, n}, NEW y \in {l, m, n}, NEW z \in {l, m, n},
               x.bucket < y.bucket, y.bucket < z.bucket
        PROVE  z.at - x.at >= Window
    <3>1. /\ x.at \in Nat /\ y.at \in Nat /\ z.at \in Nat
          /\ x.bucket = Bucket(x.at) /\ y.bucket = Bucket(y.at) /\ z.bucket = Bucket(z.at)
      BY <2>1
    <3>2. /\ x.at < x.bucket + Window /\ x.bucket + Window <= y.bucket
          /\ y.bucket + Window <= z.bucket /\ z.bucket <= z.at
          /\ x.bucket \in Nat /\ y.bucket \in Nat /\ z.bucket \in Nat
      BY <2>3, <3>1, BucketsApart
    <3> QED
      BY <3>1, <3>2, InboxAssumption
  <2>4. l.bucket \in Nat /\ m.bucket \in Nat /\ n.bucket \in Nat
    BY <2>1, BucketsApart
  <2>5. \E x, y, z \in {l, m, n} : x.bucket < y.bucket /\ y.bucket < z.bucket
    BY <2>2, <2>4
  <2> QED
    BY <2>3, <2>5
<1> QED
  BY <1>1, InboxInvariance, PTL

-------------------------------------------------------------------------------
(* A socket is new, then in the hub, and never served again once its       *)
(* connection or its handler has ended.                                    *)
HubHoldsServed ==
  /\ \A s \in Sockets : stage[s] = "serving" => s \in hub
  /\ \A s \in hub : stage[s] \in {"serving", "over"}

(* What is in the way of an unspoilt task: sockets that are served.        *)
OnItsWay(t) ==
  /\ \A s \in t.expected : Owner[s] = t.user /\ stage[s] \in {"serving", "over"}
  /\ t.stage # "over" => \A s \in hub \cap Of(t.user) : Serving(s)
  /\ t.stage = "sending" =>
       /\ t.left \subseteq Of(t.user) \cap alive
       /\ {s \in t.expected : Serving(s)} \subseteq t.left \cup t.got
  /\ t.stage = "over" => {s \in t.expected : Serving(s)} \subseteq t.got

ServedInv ==
  InboxTypeOK /\ HubHoldsServed /\ \A t \in tasks : ~t.spoilt => OnItsWay(t)

LEMMA InitServed == InboxInit => ServedInv
BY InitInbox DEF InboxInit, ServedInv, HubHoldsServed, InboxInv

(* A task Spoil leaves unspoilt is one it leaves alone.                     *)
LEMMA SpoilLeaves ==
  ASSUME InboxTypeOK, NEW u, NEW t \in Spoil(u), ~t.spoilt
  PROVE  t \in tasks /\ (u # t.user \/ t.stage = "over")
<1>1. PICK o \in tasks : t = IF o.user = u /\ o.stage # "over" THEN [o EXCEPT !.spoilt = TRUE] ELSE o
  BY DEF Spoil
<1>2. [o EXCEPT !.spoilt = TRUE].spoilt = TRUE
  BY DEF InboxTypeOK
<1> QED
  BY <1>1, <1>2

LEMMA StepServed == InboxTypeOK' /\ ServedInv /\ [InboxNext]_inboxVars => ServedInv'
<1> SUFFICES ASSUME InboxTypeOK', ServedInv, [InboxNext]_inboxVars PROVE ServedInv'
  OBVIOUS
<1>0. /\ InboxTypeOK /\ HubHoldsServed /\ \A t \in tasks : ~t.spoilt => OnItsWay(t)
      /\ stage \in [Sockets -> {"new", "accepted", "serving", "over"}]
      /\ hub \subseteq Sockets /\ alive \subseteq Sockets
  BY DEF ServedInv, InboxTypeOK
<1>t. \A t \in tasks :
        /\ t.user \in Members /\ t.stage \in {"made", "sending", "over"}
        /\ t.left \subseteq Sockets /\ t.got \subseteq Sockets /\ t.expected \subseteq Sockets
        /\ t.spoilt \in BOOLEAN
  BY <1>0 DEF InboxTypeOK
<1>1. CASE UNCHANGED <<hub, stage, alive, tasks>>
  BY <1>0, <1>1 DEF ServedInv, HubHoldsServed, OnItsWay, Serving
<1>2. ASSUME NEW c \in Pushes, PushCommit(c)
      PROVE  ServedInv'
  <2> DEFINE n == pushing[c]
             send == [user |-> n.user, of |-> <<c, n>>, stage |-> "made", left |-> {}, got |-> {},
                      expected |-> {s \in Of(n.user) : Serving(s)},
                      spoilt |-> \E s \in hub \cap Of(n.user) : ~Serving(s)]
  <2>1. UNCHANGED <<hub, stage, alive>> /\ tasks' \subseteq tasks \cup {send}
    BY <1>2 DEF PushCommit, hubVars
  <2>2. ~send.spoilt => OnItsWay(send)
    <3>1. /\ send.user = n.user /\ send.stage = "made"
          /\ send.expected = {s \in Of(n.user) : Serving(s)}
          /\ ~send.spoilt => \A s \in hub \cap Of(n.user) : Serving(s)
      OBVIOUS
    <3> HIDE DEF send
    <3> QED
      BY <3>1 DEF OnItsWay, Of, Serving
  <2> HIDE DEF send
  <2>3. \A t \in tasks' : ~t.spoilt => OnItsWay(t)
    BY <1>0, <2>1, <2>2
  <2>4. \A t \in tasks' : OnItsWay(t)' <=> OnItsWay(t)
    BY <2>1 DEF OnItsWay, Serving
  <2> QED
    BY <1>0, <2>1, <2>3, <2>4 DEF ServedInv, HubHoldsServed
<1>3. ASSUME NEW s \in Sockets, Accept(s)
      PROVE  ServedInv'
  <2>1. /\ stage[s] = "new" /\ stage' = [stage EXCEPT ![s] = "accepted"]
        /\ alive' = alive \cup {s} /\ hub' = hub /\ tasks' = tasks
    BY <1>3 DEF Accept
  <2>2. s \notin hub /\ \A r \in Sockets : Serving(r)' <=> Serving(r)
    BY <1>0, <2>1 DEF HubHoldsServed, Serving
  <2>3. HubHoldsServed'
    BY <1>0, <2>1, <2>2 DEF HubHoldsServed
  <2>4. ASSUME NEW t \in tasks, OnItsWay(t)
        PROVE  OnItsWay(t)'
    BY <1>0, <1>t, <2>1, <2>2, <2>4 DEF OnItsWay
  <2> QED
    BY <1>0, <2>1, <2>3, <2>4 DEF ServedInv
<1>4. ASSUME NEW s \in Sockets, Register(s)
      PROVE  ServedInv'
  <2>1. /\ stage[s] = "accepted" /\ stage' = [stage EXCEPT ![s] = "serving"]
        /\ alive' = alive /\ hub' = hub \cup {s}
        /\ tasks' = IF s \in alive THEN tasks ELSE Spoil(Owner[s])
    BY <1>4 DEF Register
  <2>2. HubHoldsServed' /\ s \notin hub
    BY <1>0, <2>1 DEF HubHoldsServed
  <2>3. \A r \in Sockets \ {s} : Serving(r)' <=> Serving(r)
    BY <1>0, <2>1 DEF Serving
  <2>4. ASSUME NEW t \in tasks, OnItsWay(t), s \in alive \/ Owner[s] # t.user \/ t.stage = "over"
        PROVE  OnItsWay(t)'
    <3>1. s \notin t.expected
      BY <2>1, <2>4 DEF OnItsWay
    <3>2. s \in alive => Serving(s)'
      BY <1>0, <2>1 DEF Serving
    <3> QED
      BY <1>0, <1>t, <2>1, <2>2, <2>3, <2>4, <3>1, <3>2 DEF OnItsWay, Of
  <2>5. ASSUME NEW t \in tasks', ~t.spoilt
        PROVE  t \in tasks /\ (s \in alive \/ Owner[s] # t.user \/ t.stage = "over")
    BY <1>0, <2>1, <2>5, SpoilLeaves
  <2> QED
    BY <1>0, <2>2, <2>4, <2>5 DEF ServedInv
<1>5. ASSUME NEW s \in Sockets, PeerGone(s) \/ HandlerFails(s)
      PROVE  ServedInv'
  <2>1. /\ alive' = alive \ {s} /\ hub' = hub /\ tasks' = Spoil(Owner[s])
        /\ stage' = stage \/ (stage[s] = "serving" /\ stage' = [stage EXCEPT ![s] = "over"])
    <3>1. CASE PeerGone(s)
      BY <3>1 DEF PeerGone
    <3>2. CASE HandlerFails(s)
      BY <3>2 DEF HandlerFails, Serving
    <3> QED
      BY <1>5, <3>1, <3>2
  <2>2. HubHoldsServed'
    BY <1>0, <2>1 DEF HubHoldsServed
  <2>3. ~Serving(s)' /\ \A r \in Sockets \ {s} : Serving(r)' <=> Serving(r)
    BY <1>0, <2>1 DEF Serving
  <2>4. ASSUME NEW t \in tasks, OnItsWay(t), Owner[s] # t.user \/ t.stage = "over"
        PROVE  OnItsWay(t)'
    <3>1. \A r \in t.expected : stage'[r] \in {"serving", "over"}
      BY <1>0, <1>t, <2>1, <2>4 DEF OnItsWay
    <3>2. t.stage # "over" => s \notin Of(t.user)
      BY <2>4 DEF Of
    <3> QED
      BY <1>0, <1>t, <2>1, <2>3, <2>4, <3>1, <3>2 DEF OnItsWay
  <2>5. ASSUME NEW t \in tasks', ~t.spoilt
        PROVE  t \in tasks /\ (Owner[s] # t.user \/ t.stage = "over")
    BY <1>0, <2>1, <2>5, SpoilLeaves
  <2> QED
    BY <1>0, <2>2, <2>4, <2>5 DEF ServedInv
<1>6. ASSUME NEW s \in Sockets, Disconnect(s)
      PROVE  ServedInv'
  <2>1. /\ stage[s] = "serving" /\ s \notin alive /\ stage' = [stage EXCEPT ![s] = "over"]
        /\ alive' = alive /\ hub' = hub \ {s} /\ tasks' = tasks
    BY <1>6 DEF Disconnect
  <2>2. HubHoldsServed' /\ \A r \in Sockets : Serving(r)' <=> Serving(r)
    BY <1>0, <2>1 DEF HubHoldsServed, Serving
  <2>3. ASSUME NEW t \in tasks, OnItsWay(t)
        PROVE  OnItsWay(t)'
    BY <1>0, <1>t, <2>1, <2>2, <2>3 DEF OnItsWay
  <2> QED
    BY <1>0, <2>1, <2>2, <2>3 DEF ServedInv
<1>7. ASSUME NEW t \in tasks, NEW u, Becomes(t, u), u.spoilt = t.spoilt,
             ~t.spoilt => OnItsWay(u), UNCHANGED <<hub, stage, alive>>
      PROVE  ServedInv'
  <2>1. \A v \in tasks' : ~v.spoilt => OnItsWay(v)
    BY <1>0, <1>7 DEF Becomes
  <2>2. \A v \in tasks' : OnItsWay(v)' <=> OnItsWay(v)
    BY <1>7 DEF OnItsWay, Serving
  <2> QED
    BY <1>0, <1>7, <2>1, <2>2 DEF ServedInv, HubHoldsServed
<1>8. ASSUME NEW t \in tasks, SendBegin(t)
      PROVE  ServedInv'
  <2> DEFINE u == [t EXCEPT !.stage = "sending", !.left = hub \cap Of(t.user)]
  <2>1. /\ u.user = t.user /\ u.expected = t.expected /\ u.got = t.got /\ u.spoilt = t.spoilt
        /\ u.stage = "sending" /\ u.left = hub \cap Of(t.user)
    BY <1>0 DEF InboxTypeOK
  <2>2. ~t.spoilt => OnItsWay(u)
    <3> HIDE DEF u
    <3>1. \A s \in t.expected : Serving(s) => s \in hub
      BY <1>0, <1>t DEF HubHoldsServed, Serving
    <3> QED
      BY <1>0, <1>t, <1>8, <2>1, <3>1 DEF SendBegin, OnItsWay, Serving, Of
  <2>3. Becomes(t, u) /\ UNCHANGED <<hub, stage, alive>>
    BY <1>8 DEF SendBegin, hubVars
  <2> HIDE DEF u
  <2> QED
    BY <1>7, <2>1, <2>2, <2>3
<1>9. ASSUME NEW t \in tasks, SendEnds(t)
      PROVE  ServedInv'
  <2> DEFINE u == [t EXCEPT !.stage = "over"]
  <2>1. /\ u.user = t.user /\ u.expected = t.expected /\ u.got = t.got /\ u.spoilt = t.spoilt
        /\ u.stage = "over"
    BY <1>0 DEF InboxTypeOK
  <2>2. ~t.spoilt => OnItsWay(u)
    <3> HIDE DEF u
    <3> QED
      BY <1>0, <1>9, <2>1 DEF SendEnds, OnItsWay
  <2>3. Becomes(t, u) /\ UNCHANGED <<hub, stage, alive>>
    BY <1>9 DEF SendEnds, hubVars
  <2> HIDE DEF u
  <2> QED
    BY <1>7, <2>1, <2>2, <2>3
<1>10. ASSUME NEW t \in tasks, NEW s \in Sockets, SendOne(t, s)
       PROVE  ServedInv'
  <2>0. t.stage = "sending" /\ s \in t.left /\ UNCHANGED <<hub, stage, alive>>
    BY <1>10 DEF SendOne, hubVars
  <2>1. CASE s \in alive
    <3> DEFINE u == [t EXCEPT !.left = @ \ {s}, !.got = @ \cup {s}]
    <3>1. /\ u.user = t.user /\ u.expected = t.expected /\ u.got = t.got \cup {s}
          /\ u.left = t.left \ {s} /\ u.stage = t.stage /\ u.spoilt = t.spoilt
      BY <1>0 DEF InboxTypeOK
    <3>2. ~t.spoilt => OnItsWay(u)
      <4> HIDE DEF u
      <4> QED
        BY <1>0, <2>0, <3>1 DEF OnItsWay
    <3>3. Becomes(t, u)
      BY <1>10, <2>1 DEF SendOne
    <3> HIDE DEF u
    <3> QED
      BY <1>7, <2>0, <3>1, <3>2, <3>3
  <2>2. CASE s \notin alive
    <3>1. t.spoilt
      BY <1>0, <1>t, <2>0, <2>2 DEF OnItsWay
    <3>2. ASSUME NEW u, Becomes(t, u), u.spoilt = t.spoilt PROVE ServedInv'
      BY <1>7, <2>0, <3>1, <3>2
    <3>3. /\ [t EXCEPT !.left = @ \ {s}].spoilt = t.spoilt
          /\ [t EXCEPT !.stage = "over"].spoilt = t.spoilt
      BY <1>0 DEF InboxTypeOK
    <3> QED
      BY <1>10, <2>2, <3>2, <3>3 DEF SendOne
  <2> QED
    BY <2>1, <2>2
<1>11. ASSUME NEW c \in Pushes,
              \/ \E e \in Events : \/ TriggerBegin(c, e) \/ SubmissionBegin(c, e)
                                   \/ \E u \in Members : CreateBegin(c, e, u)
              \/ \E h \in pending[c] : PushRead(c, h)
              \/ PushThrottled(c) \/ PushEnds(c)
       PROVE  UNCHANGED <<hub, stage, alive, tasks>>
  BY <1>11 DEF TriggerBegin, SubmissionBegin, CreateBegin, Begin, PushRead, PushThrottled,
               PushEnds, hubVars
<1>12. (\E n \in inbox : MarkRead(n)) \/ Minute \/ UNCHANGED inboxVars
         => UNCHANGED <<hub, stage, alive, tasks>>
  BY DEF MarkRead, Minute, inboxVars, hubVars
<1> QED
  BY <1>1, <1>2, <1>3, <1>4, <1>5, <1>6, <1>8, <1>9, <1>10, <1>11, <1>12 DEF InboxNext

(* A task that is over has sent to every socket served all the while,      *)
(* unless the hub held a dead socket of the user in between.               *)
THEOREM ServedWhenOver == InboxSpec => []OpenSocketsServed
<1>1. InboxInv /\ ServedInv /\ [InboxNext]_inboxVars => InboxInv' /\ ServedInv'
  BY StepInbox, StepServed DEF InboxInv
<1>2. ServedInv => OpenSocketsServed
  BY DEF ServedInv, OnItsWay, OpenSocketsServed
<1> QED
  BY <1>1, <1>2, InitInbox, InitServed, PTL DEF InboxSpec
===============================================================================

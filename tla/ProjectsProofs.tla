---------------------------- MODULE ProjectsProofs ----------------------------
(* Theorems about Projects, for any requests, bindings and faults.         *)
EXTENDS Projects, TLAPS

(* Where a session is tells what it does and what it has read.             *)
Sessions ==
  \A r \in Requests :
    /\ pc[r] = "idle" => work[r] = Idle
    /\ pc[r] \in {"loaded", "read"} =>
         work[r].op \in {"submit", "edit", "review"} /\ status[work[r].project] # "absent"
    /\ pc[r] = "read" =>
         /\ work[r].op \in {"submit", "edit"}
         /\ base[r] \in Versions /\ base[r].project = work[r].project
    /\ pc[r] \in {"announcing", "notifying"} => work[r].op = "submit"
    /\ work[r].op = "review" => work[r].status \in Targets

(* A project that exists has a version.                                    *)
Existing == \A p \in Projects : status[p] = "absent" <=> currentVersion[p] = 0

(* One submission at a time, and its number is still the latest.           *)
Submitting(r) == work[r].op = "submit" /\ pc[r] \notin {"done", "refused", "failed"}
OneSubmission == \A r, s \in Requests : Submitting(r) /\ Submitting(s) => r = s
Serial ==
  \A r \in Requests : pc[r] = "read" /\ work[r].op = "submit" =>
    base[r].no = currentVersion[work[r].project]

(* Two that are about to write one project have marked it as raced; for    *)
(* one that is alone, what it has read still holds.                        *)
OneWriter ==
  \A r, s \in Requests, p \in Projects : Writing(r, p) /\ Writing(s, p) /\ r # s => raced[p]
Fresh ==
  \A r \in Requests, p \in Projects : Writing(r, p) /\ ~raced[p] =>
    IF work[r].op = "review" THEN work[r].status \in Allowed(status[p])
    ELSE /\ Editable(status[p])
         /\ pc[r] = "read" => base[r] \in versions /\ base[r].no = currentVersion[p]

(* Each version as it was submitted has its diff from the one before.      *)
Chained(v, w) ==
  \/ v.content = w.content /\ v.diff = NoDiff
  \/ v.diff.old = w.content /\ v.diff.new = v.content
SubmittedChain ==
  \A s \in submitted :
    /\ s.no <= currentVersion[s.project]
    /\ ~raced[s.project] => \A w \in Of(s.project) : s.no = w.no + 1 => Chained(s, w)

(* What is announced is committed, and the loop leaves out no approver.    *)
Announced ==
  \A r \in Requests : pc[r] \in {"announcing", "notifying"} =>
    \E v \in submitted : v.project = work[r].project
Told ==
  \A r \in Requests :
    (pc[r] = "notifying" \/ (pc[r] = "done" /\ work[r].op = "submit")) =>
      \A b \in bindings :
        \/ pc[r] = "notifying" /\ b \in todo[r]
        \/ b.user = CallerOf[r]
        \/ \E n \in notes : n.project = work[r].project /\ n.user = b.user

Workflow == Sessions /\ Existing /\ OneSubmission /\ Serial /\ OneWriter /\ Fresh
History == SubmittedChain /\ ReviewedIsSubmitted /\ NotesAreOfSubmissions /\ Announced /\ Told
Inv == TypeOK /\ VersionNumbers /\ Workflow /\ History

LEMMA InitInv == Init => Inv
BY UserAssumption DEF Init, Inv, TypeOK, VersionNumbers, Workflow, Sessions, Existing, OneSubmission,
   Submitting, Serial, OneWriter, Fresh, Writing, History, SubmittedChain, ReviewedIsSubmitted,
   NotesAreOfSubmissions, Announced, Told, Of, Idle, NoVersion, Versions, Statuses

(* The latest version of a project that exists carries the current number. *)
LEMMA Latest ==
  ASSUME TypeOK, VersionNumbers, Existing, NEW p \in Projects, status[p] # "absent"
  PROVE  /\ LatestOf(p) \in versions /\ LatestOf(p).project = p
         /\ LatestOf(p).no = currentVersion[p]
<1>1. currentVersion[p] \in Nat \ {0}
  BY DEF TypeOK, Existing
<1>2. PICK v \in Of(p) : v.no = currentVersion[p]
  <2>1. currentVersion[p] \in 1..currentVersion[p]
    BY <1>1
  <2> QED BY <2>1 DEF VersionNumbers
<1>3. \A w \in versions : w.project = p => w.no \in 1..currentVersion[p]
  BY DEF VersionNumbers, Of
<1>4. v \in versions /\ v.project = p /\ \A w \in versions : w.project = p => w.no <= v.no
  BY <1>1, <1>2, <1>3 DEF Of
<1>5. /\ LatestOf(p) \in versions /\ LatestOf(p).project = p
      /\ \A w \in versions : w.project = p => w.no <= LatestOf(p).no
  BY <1>4 DEF LatestOf
<1>6. LatestOf(p).no \in 1..currentVersion[p] /\ v.no <= LatestOf(p).no
  BY <1>3, <1>4, <1>5
<1> QED
  BY <1>1, <1>2, <1>5, <1>6

(* A session that loads a project is alone with it, or marks it as raced.  *)
Accepted(w, accepts) ==
  accepts => IF w.op = "review" THEN w.status \in Allowed(status[w.project])
             ELSE Editable(status[w.project])

LEMMA LoadKeeps ==
  ASSUME Inv, NEW r \in Requests, NEW p \in Projects, NEW accepts \in BOOLEAN, NEW w,
         w \in [op : {"submit", "edit"}, project : Projects, content : Contents]
                \cup [op : {"review"}, project : Projects, status : Targets],
         w.project = p, w.op = "submit" => LoopFree,
         Accepted(w, accepts), Load(r, w, accepts)
  PROVE  Inv'
<1> DEFINE end == IF accepts THEN "loaded" ELSE "refused"
<1>1. /\ pc[r] = "idle" /\ work[r] = Idle /\ status[p] # "absent"
      /\ pc' = [pc EXCEPT ![r] = end] /\ work' = [work EXCEPT ![r] = w]
      /\ raced' = [raced EXCEPT ![p] = IF accepts THEN Contested(p) ELSE @]
      /\ UNCHANGED <<status, currentVersion, versions, bindings, notes, base, todo, pushed, submitted>>
  BY DEF Load, Inv, Workflow, Sessions, projectTables
<1>2. /\ pc'[r] = end /\ work'[r] = w
      /\ \A s \in Requests \ {r} : pc'[s] = pc[s] /\ work'[s] = work[s]
      /\ \A q \in Projects : raced[q] => raced'[q]
  <2>1. pc'[r] = end /\ work'[r] = w /\ \A s \in Requests \ {r} : pc'[s] = pc[s] /\ work'[s] = work[s]
    BY <1>1 DEF Inv, TypeOK
  <2>2. ASSUME NEW q \in Projects, raced[q] PROVE raced'[q]
    BY <1>1, <2>2 DEF Inv, TypeOK, Contested
  <2> QED BY <2>1, <2>2
<1>3. w.op \in {"submit", "edit", "review"} /\ (w.op = "review" => w.status \in Targets)
  OBVIOUS
<1>4. TypeOK'
  <2>1. raced' \in [Projects -> BOOLEAN]
    BY <1>1 DEF Inv, TypeOK, Contested
  <2>2. work' \in [Requests -> {Idle}
                  \cup [op : {"submit", "edit"}, project : Projects, content : Contents]
                  \cup [op : {"review"}, project : Projects, status : Statuses]]
    BY <1>1 DEF Inv, TypeOK, Targets, Statuses
  <2> QED
    BY <1>1, <2>1, <2>2 DEF Inv, TypeOK
<1>5. VersionNumbers' /\ Existing' /\ NotesAreOfSubmissions'
  BY <1>1 DEF Inv, Workflow, History, VersionNumbers, Of, Existing, NotesAreOfSubmissions
<1>6. Sessions'
  BY <1>1, <1>2, <1>3 DEF Inv, Workflow, Sessions
<1>7. OneSubmission'
  <2>1. \A s \in Requests \ {r} : Submitting(s)' <=> Submitting(s)
    BY <1>2 DEF Submitting
  <2>2. Submitting(r)' => w.op = "submit" /\ \A s \in Requests : ~Submitting(s)
    BY <1>2 DEF Submitting, LoopFree
  <2> QED
    BY <2>1, <2>2 DEF OneSubmission, Inv, Workflow
<1>8. Serial'
  BY <1>1, <1>2 DEF Serial, Inv, Workflow
<1>9. ASSUME NEW s \in Requests, NEW q \in Projects
      PROVE  Writing(s, q)' => IF s = r THEN accepts /\ q = p ELSE Writing(s, q)
  BY <1>2 DEF Writing
<1>10. OneWriter'
  <2> SUFFICES ASSUME NEW s \in Requests, NEW t \in Requests, NEW q \in Projects,
                      Writing(s, q)', Writing(t, q)', s # t
               PROVE  raced'[q]
    BY DEF OneWriter
  <2>1. CASE s # r /\ t # r
    BY <1>2, <1>9, <2>1 DEF Inv, Workflow, OneWriter
  <2>2. CASE s = r \/ t = r
    <3>1. accepts /\ q = p /\ Contested(p)
      BY <1>9, <2>2 DEF Contested
    <3> QED
      BY <1>1, <3>1 DEF Inv, TypeOK
  <2> QED BY <2>1, <2>2
<1>11. Fresh'
  <2> SUFFICES ASSUME NEW s \in Requests, NEW q \in Projects, Writing(s, q)', ~raced'[q]
               PROVE  (IF work[s].op = "review" THEN work[s].status \in Allowed(status[q])
                       ELSE /\ Editable(status[q])
                            /\ pc[s] = "read" => base[s] \in versions /\ base[s].no = currentVersion[q])'
    BY DEF Fresh
  <2>1. CASE s = r
    BY <1>1, <1>2, <1>9, <2>1 DEF Accepted
  <2>2. CASE s # r
    BY <1>1, <1>2, <1>9, <2>2 DEF Inv, Workflow, Fresh
  <2> QED BY <2>1, <2>2
<1>12. SubmittedChain' /\ ReviewedIsSubmitted'
  <2>1. \A s \in submitted : s.project \in Projects
    BY DEF Inv, TypeOK, Versions
  <2> QED
    BY <1>1, <1>2, <2>1 DEF Inv, History, SubmittedChain, Of, ReviewedIsSubmitted
<1>13. Announced' /\ Told'
  BY <1>1, <1>2 DEF Inv, History, Announced, Told
<1> QED
  BY <1>4, <1>5, <1>6, <1>7, <1>8, <1>10, <1>11, <1>12, <1>13 DEF Inv, Workflow, History

(* Nobody works on a project that does not exist.                          *)
LEMMA CreateKeeps ==
  ASSUME Inv, NEW p \in Projects, NEW c \in Contents, Create(p, c)
  PROVE  Inv'
<1> DEFINE new == [project |-> p, no |-> 1, content |-> c, diff |-> Initial]
<1>1. /\ status[p] = "absent" /\ currentVersion[p] = 0
      /\ status' = [status EXCEPT ![p] = "draft"]
      /\ currentVersion' = [currentVersion EXCEPT ![p] = 1]
      /\ versions' = versions \cup {new}
      /\ UNCHANGED <<pc, work, base, todo, pushed, bindings, notes, submitted, raced>>
  BY DEF Create, sessions, Inv, Workflow, Existing
<1>2. new \in Versions /\ new.project = p /\ new.no = 1
  BY DEF Versions
<1> HIDE DEF new
<1>3. TypeOK'
  BY <1>1, <1>2 DEF Inv, TypeOK, Statuses
<1>4. /\ status'[p] = "draft" /\ currentVersion'[p] = 1
      /\ \A q \in Projects \ {p} : status'[q] = status[q] /\ currentVersion'[q] = currentVersion[q]
  BY <1>1 DEF Inv, TypeOK
<1>5. Of(p) = {} /\ Of(p)' = {new} /\ \A q \in Projects \ {p} : Of(q)' = Of(q)
  <2>1. \A v \in Of(p) : v.no \in 1..0
    BY <1>1 DEF Inv, VersionNumbers
  <2> QED
    BY <1>1, <1>2, <2>1 DEF Of
<1>6. VersionNumbers'
  <2>1. {v.no : v \in Of(p)'} = 1..1
    BY <1>2, <1>5
  <2> QED
    BY <1>4, <1>5, <2>1 DEF Inv, VersionNumbers
<1>7. \A r \in Requests : pc[r] \in {"loaded", "read"} => work[r].project # p
  BY <1>1 DEF Inv, Workflow, Sessions
<1>8. \A r \in Requests : pc[r] \in {"loaded", "read"} => work[r].project \in Projects
  <2> SUFFICES ASSUME NEW r \in Requests, pc[r] \in {"loaded", "read"} PROVE work[r].project \in Projects
    OBVIOUS
  <2>1. work[r].op # "none"
    BY DEF Inv, Workflow, Sessions
  <2> QED
    BY <2>1 DEF Inv, TypeOK, Idle
<1>9. Sessions' /\ Existing' /\ Serial'
  BY <1>1, <1>4, <1>7, <1>8 DEF Inv, Workflow, Sessions, Existing, Serial
<1>10. OneSubmission' /\ OneWriter'
  BY <1>1 DEF Inv, Workflow, OneSubmission, Submitting, OneWriter, Writing
<1>11. Fresh'
  BY <1>1, <1>4, <1>7 DEF Inv, Workflow, Fresh, Writing
<1>12. SubmittedChain'
  <2> SUFFICES ASSUME NEW s \in submitted
               PROVE  /\ s.no <= currentVersion'[s.project]
                      /\ ~raced[s.project] => \A w \in Of(s.project)' : s.no = w.no + 1 => Chained(s, w)
    BY <1>1 DEF SubmittedChain, Of
  <2>1. s.project \in Projects /\ s.no \in Nat \ {0} /\ s.no <= currentVersion[s.project]
    BY DEF Inv, TypeOK, Versions, History, SubmittedChain
  <2>2. s.project # p
    BY <1>1, <2>1
  <2> QED
    BY <1>4, <1>5, <2>1, <2>2 DEF Inv, History, SubmittedChain
<1>13. ReviewedIsSubmitted'
  BY <1>1, <1>4, <1>5 DEF Inv, History, ReviewedIsSubmitted
<1>14. NotesAreOfSubmissions' /\ Announced' /\ Told'
  BY <1>1 DEF Inv, History, NotesAreOfSubmissions, Announced, Told
<1> QED
  BY <1>3, <1>6, <1>9, <1>10, <1>11, <1>12, <1>13, <1>14 DEF Inv, Workflow, History

LEMMA WorkOnProjects ==
  ASSUME Inv, NEW r \in Requests, pc[r] \in {"loaded", "read", "announcing", "notifying"}
  PROVE  work[r].project \in Projects /\ Writing(r, work[r].project)
            = (pc[r] \in {"loaded", "read"})
<1>1. work[r].op # "none"
  BY DEF Inv, Workflow, Sessions
<1> QED
  BY <1>1 DEF Inv, TypeOK, Idle, Writing

LEMMA ReadLatestKeeps ==
  ASSUME Inv, NEW r \in Requests, ReadLatest(r)
  PROVE  Inv'
<1> DEFINE p == work[r].project
<1>1. /\ pc[r] = "loaded" /\ work[r].op \in {"submit", "edit"}
      /\ base' = [base EXCEPT ![r] = LatestOf(p)] /\ pc' = [pc EXCEPT ![r] = "read"]
      /\ UNCHANGED <<status, currentVersion, versions, bindings, notes, work, todo, pushed,
                     submitted, raced>>
  BY DEF ReadLatest, projectTables
<1>2. p \in Projects /\ status[p] # "absent"
  BY <1>1, WorkOnProjects DEF Inv, Workflow, Sessions
<1>3. LatestOf(p) \in versions /\ LatestOf(p).project = p /\ LatestOf(p).no = currentVersion[p]
  BY <1>2, Latest DEF Inv, Workflow
<1>4. /\ pc'[r] = "read" /\ base'[r] = LatestOf(p)
      /\ \A s \in Requests \ {r} : pc'[s] = pc[s] /\ base'[s] = base[s]
  BY <1>1 DEF Inv, TypeOK
<1>5. LatestOf(p) \in Versions
  BY <1>3 DEF Inv, TypeOK
<1>6. TypeOK'
  BY <1>1, <1>5 DEF Inv, TypeOK
<1>7. Sessions'
  BY <1>1, <1>3, <1>4, <1>5 DEF Inv, Workflow, Sessions
<1>8. VersionNumbers' /\ Existing' /\ NotesAreOfSubmissions'
  BY <1>1 DEF Inv, VersionNumbers, Of, Workflow, Existing, History, NotesAreOfSubmissions
<1>9. Serial'
  BY <1>1, <1>3, <1>4 DEF Inv, Workflow, Serial
<1>10. OneSubmission'
  BY <1>1, <1>4 DEF Inv, Workflow, OneSubmission, Submitting
<1>11. \A s \in Requests, q \in Projects : Writing(s, q)' => Writing(s, q)
  BY <1>1, <1>4 DEF Writing
<1>12. OneWriter'
  BY <1>1, <1>11 DEF Inv, Workflow, OneWriter
<1>13. Fresh'
  <2> SUFFICES ASSUME NEW s \in Requests, NEW q \in Projects, Writing(s, q)', ~raced[q]
               PROVE  (IF work[s].op = "review" THEN work[s].status \in Allowed(status[q])
                       ELSE /\ Editable(status[q])
                            /\ pc[s] = "read" => base[s] \in versions /\ base[s].no = currentVersion[q])'
    BY <1>1 DEF Fresh
  <2>1. CASE s = r
    BY <1>1, <1>3, <1>4, <1>11, <2>1 DEF Inv, Workflow, Fresh, Writing
  <2>2. CASE s # r
    BY <1>1, <1>4, <1>11, <2>2 DEF Inv, Workflow, Fresh
  <2> QED BY <2>1, <2>2
<1>14. SubmittedChain' /\ ReviewedIsSubmitted'
  BY <1>1 DEF Inv, History, SubmittedChain, Of, ReviewedIsSubmitted
<1>15. Announced' /\ Told'
  BY <1>1, <1>4 DEF Inv, History, Announced, Told
<1> QED
  BY <1>6, <1>7, <1>8, <1>9, <1>10, <1>12, <1>13, <1>14, <1>15 DEF Inv, Workflow, History

(* A submission adds the next version to those that are there.             *)
LEMMA SubmitCommitKeeps ==
  ASSUME Inv, NEW r \in Requests, SubmitCommit(r)
  PROVE  Inv'
<1> DEFINE p == work[r].project
           new == [project |-> p, no |-> base[r].no + 1, content |-> work[r].content,
                   diff |-> Diff(base[r].content, work[r].content)]
<1>1. /\ pc[r] = "read" /\ work[r].op = "submit"
      /\ status' = [status EXCEPT ![p] = "submitted"]
      /\ currentVersion' = [currentVersion EXCEPT ![p] = new.no]
      /\ versions' = versions \cup {new} /\ submitted' = submitted \cup {new}
      /\ pc' = [pc EXCEPT ![r] = "announcing"]
      /\ UNCHANGED <<bindings, notes, work, base, todo, pushed, raced>>
  BY DEF SubmitCommit
<1>2. /\ p \in Projects /\ work[r].content \in Contents
      /\ base[r] \in Versions /\ base[r].project = p /\ base[r].no = currentVersion[p]
  <2>1. p \in Projects
    BY <1>1, WorkOnProjects
  <2>2. work[r].content \in Contents
    <3>1. \/ work[r].op = "none" \/ work[r].op = "review"
          \/ work[r] \in [op : {"submit", "edit"}, project : Projects, content : Contents]
      BY DEF Inv, TypeOK, Idle
    <3> QED BY <1>1, <3>1
  <2> QED
    BY <1>1, <2>1, <2>2 DEF Inv, Workflow, Sessions, Serial
<1>3. new \in Versions /\ new.project = p /\ new.no = currentVersion[p] + 1 /\ currentVersion[p] \in Nat
  BY <1>2 DEF Versions, Diff, Inv, TypeOK
<1>4. Chained(new, base[r])
  BY <1>2 DEF Chained, Diff, Versions
<1> HIDE DEF new
<1>5. /\ status'[p] = "submitted" /\ currentVersion'[p] = currentVersion[p] + 1
      /\ \A q \in Projects \ {p} : status'[q] = status[q] /\ currentVersion'[q] = currentVersion[q]
      /\ pc'[r] = "announcing" /\ \A s \in Requests \ {r} : pc'[s] = pc[s]
  BY <1>1, <1>2, <1>3 DEF Inv, TypeOK
<1>6. TypeOK'
  BY <1>1, <1>2, <1>3 DEF Inv, TypeOK, Statuses, Versions
<1>7. Of(p)' = Of(p) \cup {new} /\ \A q \in Projects \ {p} : Of(q)' = Of(q)
  BY <1>1, <1>3 DEF Of
<1>8. VersionNumbers'
  <2>1. {v.no : v \in Of(p)} = 1..currentVersion[p]
    BY <1>2 DEF Inv, VersionNumbers
  <2>2. {v.no : v \in Of(p)'} = 1..(currentVersion[p] + 1)
    BY <1>3, <1>7, <2>1
  <2>3. \A v \in Of(p) : v.no # new.no
    <3> SUFFICES ASSUME NEW v \in Of(p) PROVE v.no # new.no
      OBVIOUS
    <3>1. v.no \in 1..currentVersion[p]
      BY <2>1
    <3> QED BY <1>3, <3>1
  <2>4. \A v, w \in Of(p)' : v.no = w.no => v = w
    BY <1>2, <1>7, <2>3 DEF Inv, VersionNumbers
  <2> SUFFICES ASSUME NEW q \in Projects
               PROVE  ({v.no : v \in Of(q)} = 1..currentVersion[q]
                       /\ \A v, w \in Of(q) : v.no = w.no => v = w)'
    BY DEF VersionNumbers
  <2>5. CASE q = p
    BY <1>1, <1>5, <2>2, <2>4, <2>5 DEF Of
  <2>6. CASE q # p
    <3>1. Of(q)' = Of(q) /\ currentVersion'[q] = currentVersion[q]
      BY <1>5, <1>7, <2>6
    <3> QED BY <3>1 DEF Inv, VersionNumbers
  <2> QED BY <2>5, <2>6
<1>9. status[p] # "absent"
  BY <1>1 DEF Inv, Workflow, Sessions
<1>10. Existing'
  BY <1>2, <1>3, <1>5 DEF Inv, Workflow, Existing
<1>11. \A s \in Requests : pc[s] \in {"loaded", "read"} => work[s].project \in Projects
  BY WorkOnProjects
<1>12. Sessions'
  BY <1>1, <1>5, <1>11 DEF Inv, Workflow, Sessions
<1>13. OneSubmission' /\ Serial'
  <2>1. Submitting(r) /\ \A s \in Requests \ {r} : ~Submitting(s)
    BY <1>1 DEF Inv, Workflow, OneSubmission, Submitting
  <2> QED
    BY <1>1, <1>5, <2>1 DEF Inv, Workflow, OneSubmission, Submitting, Serial
<1>14. \A s \in Requests, q \in Projects : Writing(s, q)' => s # r /\ Writing(s, q)
  BY <1>1, <1>5 DEF Writing
<1>15. Writing(r, p)
  BY <1>1 DEF Writing
<1>16. OneWriter'
  BY <1>1, <1>14 DEF Inv, Workflow, OneWriter
<1>17. Fresh'
  <2> SUFFICES ASSUME NEW s \in Requests, NEW q \in Projects, Writing(s, q)', ~raced[q]
               PROVE  (IF work[s].op = "review" THEN work[s].status \in Allowed(status[q])
                       ELSE /\ Editable(status[q])
                            /\ pc[s] = "read" => base[s] \in versions /\ base[s].no = currentVersion[q])'
    BY <1>1 DEF Fresh
  <2>1. s # r /\ Writing(s, q) /\ q # p
    BY <1>2, <1>14, <1>15 DEF Inv, Workflow, OneWriter
  <2> QED
    BY <1>1, <1>5, <2>1 DEF Inv, Workflow, Fresh
<1>18. \A s \in submitted : s.project \in Projects /\ s.no \in Nat /\ s.no <= currentVersion[s.project]
  BY DEF Inv, TypeOK, Versions, History, SubmittedChain
<1>19. SubmittedChain'
  <2>1. ASSUME NEW s \in submitted'
        PROVE  s.no <= currentVersion'[s.project]
    BY <1>1, <1>3, <1>5, <1>18
  <2>2. ASSUME NEW s \in submitted', ~raced[s.project], NEW w \in Of(s.project)', s.no = w.no + 1
        PROVE  Chained(s, w)
    <3>1. CASE s \in submitted
      <4>1. w # new
        BY <1>3, <1>18, <2>2, <3>1 DEF Of
      <4>2. w \in Of(s.project)
        BY <1>1, <2>2, <4>1 DEF Of
      <4> QED
        BY <2>2, <3>1, <4>2 DEF Inv, History, SubmittedChain
    <3>2. CASE s = new
      <4>1. w \in versions /\ w.project = p /\ w.no = currentVersion[p]
        <5>1. w # new
          BY <1>3, <2>2, <3>2
        <5>2. w \in versions /\ w.project = p
          BY <1>1, <1>3, <2>2, <3>2, <5>1 DEF Of
        <5>3. w.no \in Nat
          BY <5>2 DEF Inv, TypeOK, Versions
        <5> QED
          BY <1>3, <2>2, <3>2, <5>2, <5>3
      <4>2. base[r] \in versions
        BY <1>1, <1>2, <1>3, <1>15, <2>2, <3>2 DEF Inv, Workflow, Fresh
      <4>3. w = base[r]
        BY <1>2, <4>1, <4>2 DEF Inv, VersionNumbers, Of
      <4> QED BY <1>4, <3>2, <4>3
    <3> QED BY <1>1, <3>1, <3>2
  <2> QED
    BY <1>1, <2>1, <2>2 DEF SubmittedChain, Of
<1>20. ReviewedIsSubmitted'
  BY <1>1, <1>3, <1>5, <1>7 DEF Inv, History, ReviewedIsSubmitted
<1>21. NotesAreOfSubmissions' /\ Announced'
  BY <1>1, <1>3, <1>5 DEF Inv, History, NotesAreOfSubmissions, Announced
<1>22. Told'
  BY <1>1, <1>5 DEF Inv, History, Told
<1> QED
  BY <1>6, <1>8, <1>10, <1>12, <1>13, <1>16, <1>17, <1>19, <1>20, <1>21, <1>22
  DEF Inv, Workflow, History

(* An edit changes one version, and where nobody raced it, the latest one  *)
(* of a project that is not under review.                                  *)
LEMMA EditCommitKeeps ==
  ASSUME Inv, NEW r \in Requests, EditCommit(r)
  PROVE  Inv'
<1> DEFINE p == work[r].project
           diff == Diff(base[r].content, work[r].content)
           Edited(v) == [v EXCEPT
             !.content = IF work[r].content # base[r].content THEN work[r].content ELSE @,
             !.diff = IF diff # base[r].diff THEN diff ELSE @]
           Now(v) == IF v.project = p /\ v.no = base[r].no THEN Edited(v) ELSE v
<1>1. /\ pc[r] = "read" /\ work[r].op = "edit"
      /\ versions' = {Now(v) : v \in versions}
      /\ pc' = [pc EXCEPT ![r] = "done"]
      /\ UNCHANGED <<status, currentVersion, bindings, notes, work, base, todo, pushed, submitted, raced>>
  BY DEF EditCommit
<1>2. /\ p \in Projects /\ work[r].content \in Contents
      /\ base[r] \in Versions /\ base[r].project = p
  <2>1. p \in Projects
    BY <1>1, WorkOnProjects
  <2>2. work[r].content \in Contents
    <3>1. \/ work[r].op = "none" \/ work[r].op = "review"
          \/ work[r] \in [op : {"submit", "edit"}, project : Projects, content : Contents]
      BY DEF Inv, TypeOK, Idle
    <3> QED BY <1>1, <3>1
  <2> QED
    BY <1>1, <2>1, <2>2 DEF Inv, Workflow, Sessions
<1>3. \A v \in versions :
        /\ Now(v) \in Versions /\ Now(v).project = v.project /\ Now(v).no = v.no
        /\ v.project # p \/ v.no # base[r].no => Now(v) = v
  BY <1>2 DEF Inv, TypeOK, Versions, Diff
<1> HIDE DEF Now
<1>4. pc'[r] = "done" /\ \A s \in Requests \ {r} : pc'[s] = pc[s]
  BY <1>1 DEF Inv, TypeOK
<1>5. TypeOK'
  BY <1>1, <1>3 DEF Inv, TypeOK
<1>6. \A q \in Projects : Of(q)' = {Now(v) : v \in Of(q)}
  BY <1>1, <1>3 DEF Of
<1>7. VersionNumbers'
  <2> SUFFICES ASSUME NEW q \in Projects
               PROVE  /\ {v.no : v \in Of(q)'} = 1..currentVersion[q]
                      /\ \A v, w \in Of(q)' : v.no = w.no => v = w
    BY <1>1 DEF VersionNumbers
  <2>1. \A v \in Of(q) : Now(v).no = v.no
    BY <1>3 DEF Of
  <2>2. {v.no : v \in Of(q)'} = {v.no : v \in Of(q)}
    BY <1>6, <2>1
  <2> QED
    BY <1>6, <2>1, <2>2 DEF Inv, VersionNumbers
<1>8. Existing' /\ NotesAreOfSubmissions'
  BY <1>1 DEF Inv, Workflow, Existing, History, NotesAreOfSubmissions
<1>9. Sessions' /\ Serial'
  BY <1>1, <1>4 DEF Inv, Workflow, Sessions, Serial
<1>10. OneSubmission'
  BY <1>1, <1>4 DEF Inv, Workflow, OneSubmission, Submitting
<1>11. Writing(r, p) /\ \A s \in Requests, q \in Projects : Writing(s, q)' => s # r /\ Writing(s, q)
  BY <1>1, <1>4 DEF Writing
<1>12. OneWriter'
  BY <1>1, <1>11 DEF Inv, Workflow, OneWriter
<1>13. Fresh'
  <2> SUFFICES ASSUME NEW s \in Requests, NEW q \in Projects, Writing(s, q)', ~raced[q]
               PROVE  (IF work[s].op = "review" THEN work[s].status \in Allowed(status[q])
                       ELSE /\ Editable(status[q])
                            /\ pc[s] = "read" => base[s] \in versions /\ base[s].no = currentVersion[q])'
    BY <1>1 DEF Fresh
  <2>1. s # r /\ Writing(s, q) /\ q # p
    BY <1>2, <1>11 DEF Inv, Workflow, OneWriter
  <2>2. IF work[s].op = "review" THEN work[s].status \in Allowed(status[q])
        ELSE /\ Editable(status[q])
             /\ pc[s] = "read" => base[s] \in versions /\ base[s].no = currentVersion[q]
    BY <2>1 DEF Inv, Workflow, Fresh
  <2>3. pc[s] = "read" => base[s].project = q
    BY <2>1 DEF Inv, Workflow, Sessions, Writing
  <2>4. base[s] \in versions /\ base[s].project = q => base[s] \in versions'
    BY <1>1, <1>3, <2>1
  <2> QED
    BY <1>1, <1>4, <2>1, <2>2, <2>3, <2>4
<1>14. ~raced[p] => Editable(status[p]) /\ base[r].no = currentVersion[p]
  BY <1>1, <1>2, <1>11 DEF Inv, Workflow, Fresh
<1>15. SubmittedChain'
  <2> SUFFICES ASSUME NEW s \in submitted, ~raced[s.project], NEW w \in Of(s.project)', s.no = w.no + 1
               PROVE  Chained(s, w)
    BY <1>1 DEF Inv, History, SubmittedChain, Of
  <2>1. s.project \in Projects /\ s.no \in Nat /\ s.no <= currentVersion[s.project]
        /\ currentVersion[s.project] \in Nat
    BY DEF Inv, TypeOK, Versions, History, SubmittedChain
  <2>2. PICK v \in Of(s.project) : w = Now(v)
    BY <1>6, <2>1
  <2>3. v \in versions /\ v.project = s.project /\ v.no \in Nat /\ w.no = v.no
    BY <1>3, <2>2 DEF Of, Inv, TypeOK, Versions
  <2>4. v.project # p \/ v.no # base[r].no
    BY <1>14, <2>1, <2>3
  <2>5. w = v
    BY <1>3, <2>2, <2>3, <2>4
  <2> QED
    BY <2>2, <2>5 DEF Inv, History, SubmittedChain
<1>16. ReviewedIsSubmitted'
  <2> SUFFICES ASSUME NEW q \in Projects, ~raced[q], status[q] \in {"submitted", "under_review", "approved"}
               PROVE  \E v \in Of(q)' : v.no = currentVersion[q] /\ v \in submitted
    BY <1>1 DEF ReviewedIsSubmitted
  <2>1. q # p
    BY <1>14 DEF Editable
  <2>2. PICK v \in Of(q) : v.no = currentVersion[q] /\ v \in submitted
    BY DEF Inv, History, ReviewedIsSubmitted
  <2>3. Now(v) = v
    BY <1>3, <2>1, <2>2 DEF Of
  <2> QED
    BY <1>6, <2>2, <2>3
<1>17. Announced' /\ Told'
  BY <1>1, <1>4 DEF Inv, History, Announced, Told
<1> QED
  BY <1>5, <1>7, <1>8, <1>9, <1>10, <1>12, <1>13, <1>15, <1>16, <1>17 DEF Inv, Workflow, History

(* A review moves the project along the table, if nobody raced it.         *)
LEMMA ReviewCommitKeeps ==
  ASSUME Inv, NEW r \in Requests, ReviewCommit(r)
  PROVE  Inv'
<1> DEFINE p == work[r].project
<1>1. /\ pc[r] = "loaded" /\ work[r].op = "review"
      /\ status' = [status EXCEPT ![p] = work[r].status] /\ pc' = [pc EXCEPT ![r] = "done"]
      /\ UNCHANGED <<currentVersion, versions, bindings, notes, work, base, todo, pushed, submitted, raced>>
  BY DEF ReviewCommit
<1>2. p \in Projects /\ work[r].status \in Targets /\ status[p] # "absent"
  BY <1>1, WorkOnProjects DEF Inv, Workflow, Sessions
<1>3. /\ status'[p] = work[r].status /\ \A q \in Projects \ {p} : status'[q] = status[q]
      /\ pc'[r] = "done" /\ \A s \in Requests \ {r} : pc'[s] = pc[s]
  BY <1>1, <1>2 DEF Inv, TypeOK
<1>4. TypeOK'
  BY <1>1, <1>2 DEF Inv, TypeOK, Targets, Statuses
<1>5. VersionNumbers' /\ NotesAreOfSubmissions'
  BY <1>1 DEF Inv, VersionNumbers, Of, History, NotesAreOfSubmissions
<1>6. Existing'
  BY <1>1, <1>2, <1>3 DEF Inv, Workflow, Existing, Targets
<1>7. \A s \in Requests : pc[s] \in {"loaded", "read"} => work[s].project \in Projects
  BY WorkOnProjects
<1>8. Sessions' /\ Serial'
  BY <1>1, <1>2, <1>3, <1>7 DEF Inv, Workflow, Sessions, Serial, Targets
<1>9. OneSubmission'
  BY <1>1, <1>3 DEF Inv, Workflow, OneSubmission, Submitting
<1>10. Writing(r, p) /\ \A s \in Requests, q \in Projects : Writing(s, q)' => s # r /\ Writing(s, q)
  BY <1>1, <1>3 DEF Writing
<1>11. OneWriter'
  BY <1>1, <1>10 DEF Inv, Workflow, OneWriter
<1>12. Fresh'
  <2> SUFFICES ASSUME NEW s \in Requests, NEW q \in Projects, Writing(s, q)', ~raced[q]
               PROVE  (IF work[s].op = "review" THEN work[s].status \in Allowed(status[q])
                       ELSE /\ Editable(status[q])
                            /\ pc[s] = "read" => base[s] \in versions /\ base[s].no = currentVersion[q])'
    BY <1>1 DEF Fresh
  <2>1. s # r /\ Writing(s, q) /\ q # p
    BY <1>2, <1>10 DEF Inv, Workflow, OneWriter
  <2> QED
    BY <1>1, <1>3, <2>1 DEF Inv, Workflow, Fresh
<1>13. ~raced[p] => work[r].status \in Allowed(status[p])
  BY <1>1, <1>2, <1>10 DEF Inv, Workflow, Fresh
<1>14. ReviewedIsSubmitted'
  <2>1. ASSUME ~raced[p], work[r].status \in {"submitted", "under_review", "approved"}
        PROVE  status[p] \in {"submitted", "under_review"}
    BY <1>2, <1>13, <2>1 DEF Allowed, Targets, Inv, TypeOK, Statuses
  <2> QED
    BY <1>1, <1>2, <1>3, <2>1 DEF Inv, History, ReviewedIsSubmitted, Of
<1>15. SubmittedChain'
  BY <1>1 DEF Inv, History, SubmittedChain, Of
<1>16. Announced' /\ Told'
  BY <1>1, <1>3 DEF Inv, History, Announced, Told
<1> QED
  BY <1>4, <1>5, <1>6, <1>8, <1>9, <1>11, <1>12, <1>14, <1>15, <1>16 DEF Inv, Workflow, History

(* The event is published to all who are bound at that moment.             *)
LEMMA PublishKeeps ==
  ASSUME Inv, NEW r \in Requests, Publish(r)
  PROVE  Inv'
<1>1. /\ pc[r] = "announcing" /\ todo' = [todo EXCEPT ![r] = bindings]
      /\ pc' = [pc EXCEPT ![r] = "notifying"]
      /\ UNCHANGED <<status, currentVersion, versions, bindings, notes, work, base, pushed, submitted, raced>>
  BY DEF Publish, projectTables
<1>2. /\ pc'[r] = "notifying" /\ todo'[r] = bindings
      /\ \A s \in Requests \ {r} : pc'[s] = pc[s] /\ todo'[s] = todo[s]
  BY <1>1 DEF Inv, TypeOK
<1>3. TypeOK'
  BY <1>1 DEF Inv, TypeOK
<1>4. VersionNumbers' /\ Existing' /\ SubmittedChain' /\ ReviewedIsSubmitted' /\ NotesAreOfSubmissions'
  BY <1>1 DEF Inv, VersionNumbers, Of, Workflow, Existing, History, SubmittedChain,
              ReviewedIsSubmitted, NotesAreOfSubmissions
<1>5. Sessions' /\ OneSubmission' /\ Serial'
  BY <1>1, <1>2 DEF Inv, Workflow, Sessions, OneSubmission, Submitting, Serial
<1>6. OneWriter' /\ Fresh'
  BY <1>1, <1>2 DEF Inv, Workflow, OneWriter, Fresh, Writing
<1>7. Announced' /\ Told'
  BY <1>1, <1>2 DEF Inv, History, Announced, Told
<1> QED
  BY <1>3, <1>4, <1>5, <1>6, <1>7 DEF Inv, Workflow, History

(* A binding leaves the loop with a notification, or it is the actor's.    *)
LEMMA NotifyKeeps ==
  ASSUME Inv, NEW r \in Requests, NEW b \in Bindings, Notify(r, b)
  PROVE  Inv'
<1>1. /\ pc[r] = "notifying" /\ b \in todo[r] /\ todo' = [todo EXCEPT ![r] = @ \ {b}]
      /\ IF b.user = CallerOf[r] THEN notes' = notes ELSE notes' = notes \cup {Note(r, b)}
      /\ pushed' \in {pushed, [pushed EXCEPT ![r] = TRUE]}
      /\ UNCHANGED <<status, currentVersion, versions, bindings, pc, work, base, submitted, raced>>
  BY DEF Notify, projectTables
<1>2. work[r].project \in Projects /\ b.user \in Users
  BY <1>1, WorkOnProjects, UserAssumption
<1>3. Note(r, b).project = work[r].project /\ Note(r, b).user = b.user
  BY DEF Note
<1>4. TypeOK'
  <2>1. notes' \subseteq [project : Projects, user : Users]
    BY <1>1, <1>2 DEF Inv, TypeOK, Note
  <2>2. pushed' \in [Requests -> BOOLEAN] /\ todo' \in [Requests -> SUBSET Bindings]
    BY <1>1 DEF Inv, TypeOK
  <2> QED
    BY <1>1, <2>1, <2>2 DEF Inv, TypeOK
<1>5. VersionNumbers' /\ Existing' /\ SubmittedChain' /\ ReviewedIsSubmitted'
  BY <1>1 DEF Inv, VersionNumbers, Of, Workflow, Existing, History, SubmittedChain, ReviewedIsSubmitted
<1>6. Sessions' /\ OneSubmission' /\ Serial' /\ OneWriter' /\ Fresh'
  BY <1>1 DEF Inv, Workflow, Sessions, OneSubmission, Submitting, Serial, OneWriter, Fresh, Writing
<1>7. NotesAreOfSubmissions' /\ Announced'
  BY <1>1, <1>3 DEF Inv, History, NotesAreOfSubmissions, Announced
<1>8. Told'
  <2> SUFFICES ASSUME NEW s \in Requests, NEW c \in bindings,
                      pc[s] = "notifying" \/ (pc[s] = "done" /\ work[s].op = "submit")
               PROVE  \/ pc[s] = "notifying" /\ c \in todo'[s]
                      \/ c.user = CallerOf[s]
                      \/ \E n \in notes' : n.project = work[s].project /\ n.user = c.user
    BY <1>1 DEF Told
  <2>1. notes \subseteq notes' /\ (s # r => todo'[s] = todo[s]) /\ todo'[r] = todo[r] \ {b}
    BY <1>1 DEF Inv, TypeOK
  <2>2. CASE s = r /\ c = b
    BY <1>1, <1>3, <2>2
  <2>3. CASE ~(s = r /\ c = b)
    BY <2>1, <2>3 DEF Inv, History, Told
  <2> QED BY <2>2, <2>3
<1> QED
  BY <1>4, <1>5, <1>6, <1>7, <1>8 DEF Inv, Workflow, History

(* A request that ends writes nothing, and ends well after a submission    *)
(* only when nobody is left to tell.                                       *)
LEMMA EndKeeps ==
  ASSUME Inv, NEW r \in Requests, Answer(r) \/ Fail(r) \/ \E b \in Bindings : Vanished(r, b)
  PROVE  Inv'
<1>1. PICK end \in {"done", "failed"} :
        /\ pc' = [pc EXCEPT ![r] = end] /\ pc[r] \in {"loaded", "read", "announcing", "notifying"}
        /\ end = "done" => pc[r] = "notifying" /\ todo[r] = {}
        /\ UNCHANGED <<status, currentVersion, versions, bindings, notes, work, base, todo, pushed,
                       submitted, raced>>
  BY DEF Answer, Fail, Vanished, projectTables
<1>2. pc'[r] = end /\ \A s \in Requests \ {r} : pc'[s] = pc[s]
  BY <1>1 DEF Inv, TypeOK
<1>3. TypeOK'
  BY <1>1 DEF Inv, TypeOK
<1>4. VersionNumbers' /\ Existing' /\ SubmittedChain' /\ ReviewedIsSubmitted' /\ NotesAreOfSubmissions'
  BY <1>1 DEF Inv, VersionNumbers, Of, Workflow, Existing, History, SubmittedChain,
              ReviewedIsSubmitted, NotesAreOfSubmissions
<1>5. Sessions' /\ OneSubmission' /\ Serial'
  BY <1>1, <1>2 DEF Inv, Workflow, Sessions, OneSubmission, Submitting, Serial
<1>6. OneWriter' /\ Fresh'
  BY <1>1, <1>2 DEF Inv, Workflow, OneWriter, Fresh, Writing
<1>7. Announced' /\ Told'
  BY <1>1, <1>2 DEF Inv, History, Announced, Told
<1> QED
  BY <1>3, <1>4, <1>5, <1>6, <1>7 DEF Inv, Workflow, History

LEMMA RevokeKeeps ==
  ASSUME Inv, NEW b \in Bindings, Revoke(b)
  PROVE  Inv'
BY DEF Revoke, projectTables, sessions, Inv, TypeOK, VersionNumbers, Of, Workflow, Sessions, Existing,
   OneSubmission, Submitting, Serial, OneWriter, Fresh, Writing, History, SubmittedChain,
   ReviewedIsSubmitted, NotesAreOfSubmissions, Announced, Told

LEMMA StutterKeeps == Inv /\ UNCHANGED vars => Inv'
BY DEF vars, projectTables, sessions, Inv, TypeOK, VersionNumbers, Of, Workflow, Sessions, Existing,
   OneSubmission, Submitting, Serial, OneWriter, Fresh, Writing, History, SubmittedChain,
   ReviewedIsSubmitted, NotesAreOfSubmissions, Announced, Told

(* What submit and edit load is editable, and what a review loads may go   *)
(* where it asks.                                                          *)
LEMMA LoadsKeep ==
  ASSUME Inv, NEW r \in Requests, NEW p \in Projects
  PROVE  /\ \A c \in Contents : SubmitLoad(r, p, c) \/ EditLoad(r, p, c) => Inv'
         /\ \A s \in Targets : ReviewLoad(r, p, s) => Inv'
<1>1. ASSUME NEW c \in Contents, SubmitLoad(r, p, c) PROVE Inv'
  BY <1>1, LoadKeeps DEF SubmitLoad, Accepted
<1>2. ASSUME NEW c \in Contents, EditLoad(r, p, c) PROVE Inv'
  BY <1>2, LoadKeeps DEF EditLoad, Accepted
<1>3. ASSUME NEW s \in Targets, ReviewLoad(r, p, s) PROVE Inv'
  <2> DEFINE w == [op |-> "review", project |-> p, status |-> s]
             accepts == s \in Allowed(status[p])
  <2>1. /\ w \in [op : {"review"}, project : Projects, status : Targets]
        /\ w.op = "review" /\ w.project = p /\ w.status = s
    OBVIOUS
  <2>2. accepts \in BOOLEAN /\ Accepted(w, accepts) /\ Load(r, w, accepts)
    BY <1>3, <2>1 DEF ReviewLoad, Accepted
  <2> HIDE DEF w, accepts
  <2> QED BY <2>1, <2>2, LoadKeeps
<1> QED BY <1>1, <1>2, <1>3

LEMMA NextKeeps == Inv /\ [Next]_vars => Inv'
<1> SUFFICES ASSUME Inv, [Next]_vars PROVE Inv'
  OBVIOUS
<1>1. CASE UNCHANGED vars
  BY <1>1, StutterKeeps
<1>2. CASE \E p \in Projects, c \in Contents : Create(p, c)
  BY <1>2, CreateKeeps
<1>3. CASE \E r \in Requests, p \in Projects, c \in Contents : SubmitLoad(r, p, c) \/ EditLoad(r, p, c)
  BY <1>3, LoadsKeep
<1>4. CASE \E r \in Requests, p \in Projects, s \in Targets : ReviewLoad(r, p, s)
  BY <1>4, LoadsKeep
<1>5. ASSUME NEW r \in Requests,
             \/ ReadLatest(r) \/ SubmitCommit(r) \/ EditCommit(r) \/ ReviewCommit(r)
             \/ Publish(r) \/ Answer(r) \/ Fail(r)
      PROVE  Inv'
  BY <1>5, ReadLatestKeeps, SubmitCommitKeeps, EditCommitKeeps, ReviewCommitKeeps, PublishKeeps, EndKeeps
<1>6. ASSUME NEW r \in Requests, NEW b \in Bindings, Notify(r, b) \/ Vanished(r, b) PROVE Inv'
  BY <1>6, NotifyKeeps, EndKeeps
<1>7. CASE \E b \in Bindings : Revoke(b)
  BY <1>7, RevokeKeeps
<1> QED
  BY <1>1, <1>2, <1>3, <1>4, <1>5, <1>6, <1>7 DEF Next

(* The tables and sessions of Projects always satisfy Inv.                 *)
THEOREM Invariance == Spec => []Inv
<1> QED
  BY InitInv, NextKeeps, PTL DEF Spec

-------------------------------------------------------------------------------
(* The tables and sessions of the projects keep their types.               *)
THEOREM TypeCorrect == Spec => []TypeOK
BY Invariance, PTL DEF Inv

(* However requests overlap and fail, versions are numbered from 1 to the  *)
(* current one without gaps or doubles.                                    *)
THEOREM NumbersWithoutGaps == Spec => []VersionNumbers
BY Invariance, PTL DEF Inv

(* A project that was not raced is reviewed and approved as submitted.     *)
THEOREM ReviewsWhatWasSubmitted == Spec => []ReviewedIsSubmitted
BY Invariance, PTL DEF Inv, History

(* Diffs of submitted versions chain on a project that was not raced.      *)
THEOREM SubmittedDiffs == Spec => []DiffsChain
<1>1. Inv => DiffsChain
  <2> SUFFICES ASSUME Inv, NEW p \in Projects, ~raced[p], NEW v \in Of(p), NEW w \in Of(p),
                      v \in submitted, v.no = w.no + 1
               PROVE  Chained(v, w)
    BY DEF DiffsChain, Chained
  <2>1. v.project = p
    BY DEF Of
  <2> QED
    BY <2>1 DEF Inv, History, SubmittedChain
<1> QED
  BY <1>1, Invariance, PTL

(* Nobody is told of a submission that is not committed.                   *)
THEOREM NotesFollowCommits == Spec => []NotesAreOfSubmissions
BY Invariance, PTL DEF Inv, History

(* An answered submission has told every approver who is still bound.      *)
THEOREM EveryApproverTold == Spec => []ApproversTold
<1>1. Inv => ApproversTold
  BY DEF Inv, History, Told, ApproversTold
<1> QED
  BY <1>1, Invariance, PTL

(* What a step does to the status of a project.                            *)
LEMMA StatusSteps ==
  ASSUME Inv, Next, NEW p \in Projects, status'[p] # status[p]
  PROVE  \/ status[p] = "absent" /\ status'[p] = "draft"
         \/ \E r \in Requests : /\ Writing(r, p) /\ work[r].op = "review" /\ raced' = raced
                               /\ status'[p] = work[r].status /\ work[r].status \in Targets
         \/ \E r \in Requests : /\ Writing(r, p) /\ work[r].op = "submit" /\ raced' = raced
                               /\ status'[p] = "submitted"
                               /\ currentVersion'[p] = currentVersion[p] + 1
<1>1. CASE \E q \in Projects, c \in Contents : Create(q, c)
  BY <1>1 DEF Create, Inv, TypeOK
<1>2. CASE \E r \in Requests : ReviewCommit(r)
  <2>1. PICK r \in Requests : ReviewCommit(r)
    BY <1>2
  <2>2. work[r].status \in Targets /\ work[r].project = p /\ status'[p] = work[r].status
    BY <2>1 DEF ReviewCommit, Inv, Workflow, Sessions, TypeOK
  <2> QED
    BY <2>1, <2>2 DEF ReviewCommit, Writing
<1>3. CASE \E r \in Requests : SubmitCommit(r)
  <2>1. PICK r \in Requests : SubmitCommit(r)
    BY <1>3
  <2>2. work[r].project = p /\ status'[p] = "submitted" /\ currentVersion'[p] = base[r].no + 1
    BY <2>1 DEF SubmitCommit, Inv, TypeOK
  <2>3. base[r].no = currentVersion[p]
    BY <2>1, <2>2 DEF SubmitCommit, Inv, Workflow, Serial
  <2> QED
    BY <2>1, <2>2, <2>3 DEF SubmitCommit, Writing
<1>4. CASE status' = status
  BY <1>4
<1> QED
  BY <1>1, <1>2, <1>3, <1>4 DEF Next, SubmitLoad, EditLoad, ReviewLoad, Load, ReadLatest, EditCommit,
     Publish, Answer, Fail, Notify, Vanished, Revoke, projectTables

(* A project that was not raced follows the table: approved only from      *)
(* under_review, and deactivated for good.                                 *)
THEOREM FollowsTheTable == Spec => LifecycleUnlessRaced
<1> DEFINE Orderly == \A p \in Projects : ~raced'[p] /\ status'[p] # status[p] =>
                        /\ status[p] # "deactivated"
                        /\ status'[p] = "approved" => status[p] = "under_review"
<1>1. Inv /\ [Next]_vars => [Orderly]_vars
  <2> SUFFICES ASSUME Inv, Next, NEW p \in Projects, ~raced'[p], status'[p] # status[p]
               PROVE  /\ status[p] # "deactivated"
                      /\ status'[p] = "approved" => status[p] = "under_review"
    OBVIOUS
  <2>1. status[p] \in Statuses \cup {"absent"}
    BY DEF Inv, TypeOK
  <2>2. ASSUME NEW r \in Requests, Writing(r, p), work[r].op = "review", raced' = raced,
               status'[p] = work[r].status, work[r].status \in Targets
        PROVE  /\ status[p] # "deactivated"
               /\ status'[p] = "approved" => status[p] = "under_review"
    <3>1. work[r].status \in Allowed(status[p])
      BY <2>2 DEF Inv, Workflow, Fresh
    <3> QED
      BY <2>1, <2>2, <3>1 DEF Allowed, Targets, Statuses
  <2>3. ASSUME NEW r \in Requests, Writing(r, p), work[r].op = "submit", raced' = raced,
               status'[p] = "submitted"
        PROVE  status[p] # "deactivated"
    BY <2>3 DEF Inv, Workflow, Fresh, Editable
  <2> QED
    BY <2>2, <2>3, StatusSteps
<1>2. Spec => [][Orderly]_vars
  BY <1>1, Invariance, PTL DEF Spec
<1> QED
  BY <1>2 DEF LifecycleUnlessRaced

(* Becoming submitted always comes with the next version.                  *)
THEOREM ResubmissionsAreVersions == Spec => SubmissionsAreVersions
<1> DEFINE Counted == \A p \in Projects : status'[p] = "submitted" /\ status[p] # "submitted" =>
                        currentVersion'[p] = currentVersion[p] + 1
<1>1. Inv /\ [Next]_vars => [Counted]_vars
  BY StatusSteps DEF Targets
<1>2. Spec => [][Counted]_vars
  BY <1>1, Invariance, PTL DEF Spec
<1> QED
  BY <1>2 DEF SubmissionsAreVersions
===============================================================================

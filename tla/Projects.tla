------------------------------- MODULE Projects -------------------------------
(***************************************************************************)
(* The life of a project: versions, the review workflow, and the           *)
(* announcement of a submission to those who approve it.                   *)
(*                                                                         *)
(* Editing and reviewing run in threads and interleave with everything.    *)
(* The submit handler is a coroutine without an await, so it holds the     *)
(* event loop from its first read to its last notification, and no two     *)
(* submissions overlap.  All sessions read without a lock, and write by id *)
(* the columns that differ from what they read.                            *)
(***************************************************************************)
EXTENDS Integers

CONSTANTS
  Requests,      \* HTTP calls; each is made once
  Projects, Contents,
  Users,
  Applicant,     \* projects.applicant_user_id
  CallerOf,      \* the authenticated user of each request
  Override,      \* may reviewers and administrators act for applicants?
  Bindings,      \* user_role_bindings of reviewers and administrators: [id, user]
  Faults         \* may a request fail, and may a binding be revoked?

ASSUME UserAssumption ==
  /\ Applicant \in [Projects -> Users] /\ CallerOf \in [Requests -> Users]
  /\ \A b \in Bindings : b.user \in Users

VARIABLES
  \* the database
  status,           \* projects.status, "absent" before the project exists
  currentVersion,   \* projects.current_version_no
  versions,         \* project_versions: [project, no, content, diff]
  bindings,
  notes,            \* who has a notification of which project: [project, user]
  \* one session per request
  pc,
  work,             \* what it is doing: [op, project, content or status]
  base,             \* the latest version it has read
  todo,             \* the bindings it has still to notify
  pushed,           \* has it committed in the loop over the bindings?
  \* history
  submitted,        \* the versions as they were submitted
  raced             \* projects loaded by a request while another was about to write

projectTables == <<status, currentVersion, versions>>
sessions == <<pc, work, base, todo, pushed>>
vars == <<projectTables, bindings, notes, sessions, submitted, raced>>

-------------------------------------------------------------------------------
Idle == [op |-> "none"]
NoVersion == [no |-> 0]

Of(p) == {v \in versions : v.project = p}

Writing(r, p) == pc[r] \in {"loaded", "read"} /\ work[r].project = p
Contested(p) == raced[p] \/ \E r \in Requests : Writing(r, p)

LoopFree ==
  \A r \in Requests :
    work[r].op = "submit" => pc[r] \in {"done", "refused", "failed"}

Access(u, p) ==
  u = Applicant[p] \/ (Override /\ \E b \in bindings : b.user = u)

(* The dictionary diff: empty between equals.  The first version's is the  *)
(* word "initial".                                                         *)
(* Mutant of Diff: its arguments are exchanged.                            *)
NoDiff == [old |-> "none", new |-> "none"]
Initial == [old |-> "initial", new |-> "initial"]
DiffReversed(old, new) == IF old = new THEN NoDiff ELSE [old |-> new, new |-> old]

Diff(old, new) == IF old = new THEN NoDiff ELSE [old |-> old, new |-> new]

(* update_project_status may go from each status to these.                 *)
(* Mutant of Allowed: a submitted project may be approved unread.          *)
AllowedUnread(s) ==
  CASE s = "submitted" -> {"under_review", "approved", "rejected", "deactivated"}
    [] s = "under_review" -> {"approved", "rejected"}
    [] OTHER -> {"deactivated"}

Allowed(s) ==
  CASE s = "draft" -> {"submitted", "deactivated"}
    [] s = "submitted" -> {"under_review", "rejected", "deactivated"}
    [] s = "under_review" -> {"approved", "rejected"}
    [] s = "rejected" -> {"submitted", "deactivated"}
    [] s = "approved" -> {"deactivated"}
    [] OTHER -> {}

(* What the actions of the status endpoint ask for; "resubmit" is refused. *)
(* Mutants of Targets: "resubmit" goes through; an action without a status.*)
TargetsResubmit == {"under_review", "approved", "rejected", "deactivated", "submitted"}
TargetsArchive == {"archived"}

Targets == {"under_review", "approved", "rejected", "deactivated"}

(* Mutant of Editable: what is submitted may still be edited.              *)
EditableSubmitted(s) == s \in {"draft", "rejected", "submitted"}

Editable(s) == s \in {"draft", "rejected"}

Init ==
  /\ status = [p \in Projects |-> "absent"]
  /\ currentVersion = [p \in Projects |-> 0]
  /\ versions = {} /\ submitted = {}
  /\ bindings = Bindings
  /\ notes = {}
  /\ pc = [r \in Requests |-> "idle"]
  /\ work = [r \in Requests |-> Idle]
  /\ base = [r \in Requests |-> NoVersion]
  /\ todo = [r \in Requests |-> {}]
  /\ pushed = [r \in Requests |-> FALSE]
  /\ raced = [p \in Projects |-> FALSE]

-------------------------------------------------------------------------------
(* create_project; its rows are seen by nobody before its one commit.      *)
Create(p, c) ==
  /\ status[p] = "absent"
  /\ status' = [status EXCEPT ![p] = "draft"]
  /\ currentVersion' = [currentVersion EXCEPT ![p] = 1]
  /\ versions' = versions \cup {[project |-> p, no |-> 1, content |-> c, diff |-> Initial]}
  /\ UNCHANGED <<bindings, notes, sessions, submitted, raced>>

(* The access check loads the project; the test of its status reads that   *)
(* copy.                                                                   *)
Load(r, w, accepts) ==
  /\ pc[r] = "idle" /\ status[w.project] # "absent"
  /\ pc' = [pc EXCEPT ![r] = IF accepts THEN "loaded" ELSE "refused"]
  /\ work' = [work EXCEPT ![r] = w]
  /\ raced' = [raced EXCEPT ![w.project] = IF accepts THEN Contested(w.project) ELSE @]
  /\ UNCHANGED <<projectTables, bindings, notes, base, todo, pushed, submitted>>

SubmitLoad(r, p, c) ==
  /\ LoopFree
  /\ Load(r, [op |-> "submit", project |-> p, content |-> c],
          Access(CallerOf[r], p) /\ Editable(status[p]))

EditLoad(r, p, c) ==
  Load(r, [op |-> "edit", project |-> p, content |-> c],
       Access(CallerOf[r], p) /\ Editable(status[p]))

ReviewLoad(r, p, s) ==
  Load(r, [op |-> "review", project |-> p, status |-> s], s \in Allowed(status[p]))

(* The latest version, by a query of its own.                              *)
(* Mutant of LatestOf: the query is not ordered.                           *)
AnyOf(p) == CHOOSE v \in versions : v.project = p

LatestOf(p) ==
  CHOOSE v \in versions : v.project = p /\ \A w \in versions : w.project = p => w.no <= v.no

ReadLatest(r) ==
  /\ pc[r] = "loaded" /\ work[r].op \in {"submit", "edit"}
  /\ base' = [base EXCEPT ![r] = LatestOf(work[r].project)]
  /\ pc' = [pc EXCEPT ![r] = "read"]
  /\ UNCHANGED <<projectTables, bindings, notes, work, todo, pushed, submitted, raced>>

(* The unique constraint on project and version number.                    *)
Duplicate(r) ==
  /\ pc[r] = "read" /\ work[r].op = "submit"
  /\ \E v \in Of(work[r].project) : v.no = base[r].no + 1

(* Status and version number differ from what was read, so both columns    *)
(* are written.                                                            *)
SubmitCommit(r) ==
  LET p == work[r].project
      new == [project |-> p, no |-> base[r].no + 1, content |-> work[r].content,
              diff |-> Diff(base[r].content, work[r].content)]
  IN /\ pc[r] = "read" /\ work[r].op = "submit" /\ ~Duplicate(r)
     /\ status' = [status EXCEPT ![p] = "submitted"]
     /\ currentVersion' = [currentVersion EXCEPT ![p] = new.no]
     /\ versions' = versions \cup {new}
     /\ submitted' = submitted \cup {new}
     /\ pc' = [pc EXCEPT ![r] = "announcing"]
     /\ UNCHANGED <<bindings, notes, work, base, todo, pushed, raced>>

(* The row of the version that was read gets the columns that are new; its *)
(* diff is with its own content.                                           *)
(* Mutant of EditCommit: an edit counts as a version.                      *)
EditCommitCounted(r) ==
  LET p == work[r].project
      diff == Diff(base[r].content, work[r].content)
      Edited(v) == [v EXCEPT
        !.content = IF work[r].content # base[r].content THEN work[r].content ELSE @,
        !.diff = IF diff # base[r].diff THEN diff ELSE @]
  IN /\ pc[r] = "read" /\ work[r].op = "edit"
     /\ versions' = {IF v.project = p /\ v.no = base[r].no THEN Edited(v) ELSE v : v \in versions}
     /\ currentVersion' = [currentVersion EXCEPT ![p] = @ + 1]
     /\ pc' = [pc EXCEPT ![r] = "done"]
     /\ UNCHANGED <<status, bindings, notes, work, base, todo,
                    pushed, submitted, raced>>

EditCommit(r) ==
  LET p == work[r].project
      diff == Diff(base[r].content, work[r].content)
      Edited(v) == [v EXCEPT
        !.content = IF work[r].content # base[r].content THEN work[r].content ELSE @,
        !.diff = IF diff # base[r].diff THEN diff ELSE @]
  IN /\ pc[r] = "read" /\ work[r].op = "edit"
     /\ versions' = {IF v.project = p /\ v.no = base[r].no THEN Edited(v) ELSE v : v \in versions}
     /\ pc' = [pc EXCEPT ![r] = "done"]
     /\ UNCHANGED <<status, currentVersion, bindings, notes, work, base, todo,
                    pushed, submitted, raced>>

ReviewCommit(r) ==
  /\ pc[r] = "loaded" /\ work[r].op = "review"
  /\ status' = [status EXCEPT ![work[r].project] = work[r].status]
  /\ pc' = [pc EXCEPT ![r] = "done"]
  /\ UNCHANGED <<currentVersion, versions, bindings, notes, work, base, todo,
                 pushed, submitted, raced>>

-------------------------------------------------------------------------------
(* event_bus.publish calls _notification_event_handler, which lists the    *)
(* bindings in a session of its own ...                                    *)
(* Mutant of Publish: the event is published before the commit.            *)
PublishEarly(r) ==
  /\ pc[r] = "read" /\ work[r].op = "submit"
  /\ todo' = [todo EXCEPT ![r] = bindings]
  /\ pc' = [pc EXCEPT ![r] = "notifying"]
  /\ UNCHANGED <<projectTables, bindings, notes, work, base, pushed, submitted, raced>>

Publish(r) ==
  /\ pc[r] = "announcing"
  /\ todo' = [todo EXCEPT ![r] = bindings]
  /\ pc' = [pc EXCEPT ![r] = "notifying"]
  /\ UNCHANGED <<projectTables, bindings, notes, work, base, pushed, submitted, raced>>

(* ... and for each but the actor's commits a notification, or rolls back  *)
(* when the ten-minute window has one already.  Either expires the         *)
(* bindings, so those that follow are read again.                          *)
Note(r, b) == [project |-> work[r].project, user |-> b.user]
Readable(r, b) == pushed[r] => b \in bindings

Notify(r, b) ==
  /\ pc[r] = "notifying" /\ b \in todo[r] /\ Readable(r, b)
  /\ todo' = [todo EXCEPT ![r] = @ \ {b}]
  /\ IF b.user = CallerOf[r]
     THEN UNCHANGED <<notes, pushed>>
     ELSE /\ notes' = notes \cup {Note(r, b)}
          /\ pushed' = [pushed EXCEPT ![r] = TRUE]
  /\ UNCHANGED <<projectTables, bindings, pc, work, base, submitted, raced>>

(* A binding revoked meanwhile cannot be refreshed: the exception ends the *)
(* loop and the request.                                                   *)
Vanished(r, b) ==
  /\ pc[r] = "notifying" /\ b \in todo[r] /\ ~Readable(r, b)
  /\ pc' = [pc EXCEPT ![r] = "failed"]
  /\ UNCHANGED <<projectTables, bindings, notes, work, base, todo, pushed,
                 submitted, raced>>

(* Mutant of Answer: the loop ends with the first notification.            *)
AnswerFirst(r) ==
  /\ pc[r] = "notifying" /\ (todo[r] = {} \/ pushed[r])
  /\ pc' = [pc EXCEPT ![r] = "done"]
  /\ UNCHANGED <<projectTables, bindings, notes, work, base, todo, pushed,
                 submitted, raced>>

Answer(r) ==
  /\ pc[r] = "notifying" /\ todo[r] = {}
  /\ pc' = [pc EXCEPT ![r] = "done"]
  /\ UNCHANGED <<projectTables, bindings, notes, work, base, todo, pushed,
                 submitted, raced>>

(* An error of the database, or the end of the process.                    *)
Fail(r) ==
  /\ "request" \in Faults \/ Duplicate(r)
  /\ pc[r] \in {"loaded", "read", "announcing", "notifying"}
  /\ pc' = [pc EXCEPT ![r] = "failed"]
  /\ UNCHANGED <<projectTables, bindings, notes, work, base, todo, pushed,
                 submitted, raced>>

Revoke(b) ==
  /\ "revoke" \in Faults /\ b \in bindings
  /\ bindings' = bindings \ {b}
  /\ UNCHANGED <<projectTables, notes, sessions, submitted, raced>>

Next ==
  \/ \E p \in Projects, c \in Contents : Create(p, c)
  \/ \E r \in Requests, p \in Projects, c \in Contents : SubmitLoad(r, p, c) \/ EditLoad(r, p, c)
  \/ \E r \in Requests, p \in Projects, s \in Targets : ReviewLoad(r, p, s)
  \/ \E r \in Requests :
       \/ ReadLatest(r) \/ SubmitCommit(r) \/ EditCommit(r) \/ ReviewCommit(r)
       \/ Publish(r) \/ Answer(r) \/ Fail(r)
  \/ \E r \in Requests, b \in Bindings : Notify(r, b) \/ Vanished(r, b)
  \/ \E b \in Bindings : Revoke(b)

Spec == Init /\ [][Next]_vars

-------------------------------------------------------------------------------
Versions == [project : Projects, no : Nat \ {0}, content : Contents,
             diff : {Initial, NoDiff} \cup [old : Contents, new : Contents]]
Statuses == {"draft", "submitted", "under_review", "rejected", "approved", "deactivated"}
(* Every variable has its type: a request works on a project with what its *)
(* body may say, and a project has one of the statuses of the enumeration. *)
TypeOK ==
  /\ status \in [Projects -> Statuses \cup {"absent"}]
  /\ currentVersion \in [Projects -> Nat]
  /\ versions \subseteq Versions /\ submitted \subseteq Versions
  /\ bindings \subseteq Bindings
  /\ notes \subseteq [project : Projects, user : Users]
  /\ pc \in [Requests -> {"idle", "refused", "loaded", "read", "announcing", "notifying",
                          "done", "failed"}]
  /\ work \in [Requests -> {Idle}
                  \cup [op : {"submit", "edit"}, project : Projects, content : Contents]
                  \cup [op : {"review"}, project : Projects, status : Statuses]]
  /\ base \in [Requests -> {NoVersion} \cup Versions]
  /\ todo \in [Requests -> SUBSET Bindings] /\ pushed \in [Requests -> BOOLEAN]
  /\ raced \in [Projects -> BOOLEAN]

(* The versions of a project are 1 to current_version_no, each there once, *)
(* although the number is read before it is used, and written to two       *)
(* tables: a submission, an edit or a review that overlaps leaves no gap.  *)
VersionNumbers ==
  \A p \in Projects :
    /\ {v.no : v \in Of(p)} = 1..currentVersion[p]
    /\ \A v, w \in Of(p) : v.no = w.no => v = w

(* Without an overlap, what is submitted, under review or approved is the  *)
(* current version exactly as it was submitted: no edit, rejection and     *)
(* resubmission leads to a review of something else.                       *)
ReviewedIsSubmitted ==
  \A p \in Projects :
    ~raced[p] /\ status[p] \in {"submitted", "under_review", "approved"} =>
      \E v \in Of(p) : v.no = currentVersion[p] /\ v \in submitted

(* Without an overlap, the diff of a version that was submitted and not    *)
(* edited since leads from the version before it, as that now is, to it.   *)
DiffsChain ==
  \A p \in Projects : ~raced[p] =>
    \A v, w \in Of(p) : v \in submitted /\ v.no = w.no + 1 =>
      \/ v.content = w.content /\ v.diff = NoDiff
      \/ v.diff.old = w.content /\ v.diff.new = v.content

(* Nobody is told of a submission that is not committed: the event is      *)
(* published after the commit, from a session that cannot undo it.         *)
NotesAreOfSubmissions ==
  \A n \in notes : \E v \in submitted : v.project = n.project

(* When a submission is answered, whoever still reviews projects, the      *)
(* submitter aside, has a notification of it, even when other bindings     *)
(* have been revoked under the loop.                                       *)
ApproversTold ==
  \A r \in Requests : pc[r] = "done" /\ work[r].op = "submit" =>
    \A b \in bindings : b.user # CallerOf[r] =>
      \E n \in notes : n.project = work[r].project /\ n.user = b.user

(* A project that no two requests meant to change at once is approved only *)
(* from under_review, and a deactivated one stays so.                      *)
LifecycleUnlessRaced ==
  [][\A p \in Projects : ~raced'[p] /\ status'[p] # status[p] =>
       /\ status[p] # "deactivated"
       /\ status'[p] = "approved" => status[p] = "under_review"]_vars

(* Whatever overlaps, a project is never resubmitted without a version:    *)
(* the status becomes submitted only with the next version number.         *)
SubmissionsAreVersions ==
  [][\A p \in Projects : status'[p] = "submitted" /\ status[p] # "submitted" =>
       currentVersion'[p] = currentVersion[p] + 1]_vars

(* docs/design.md:162-163: if data changes, increment the version, and     *)
(* compute the diff against the previous version.  An edit of a rejected   *)
(* version does neither, even without an overlap.                          *)
DiffsAgainstPrevious ==
  \A p \in Projects : ~raced[p] => \A v, w \in Of(p) : v.no = w.no + 1 =>
    \/ v.content = w.content /\ v.diff = NoDiff
    \/ v.diff.old = w.content /\ v.diff.new = v.content
===============================================================================

-------------------------------- MODULE Shifts --------------------------------
(***************************************************************************)
(* The shift schedule: a window from a start to an end, moved by partial   *)
(* updates that are tested against the window as it was read, and a status *)
(* changed by a transition table, tested likewise.                         *)
(***************************************************************************)
EXTENDS Integers, UnitOfWork

CONSTANTS
  ShiftCalls,           \* calls that update a shift; each is made once
  ShiftIds,
  Times                 \* points in time, at least 1

ASSUME TimesAssumption == Times \subseteq Nat \ {0}

VARIABLES
  shifts,               \* shift_schedules: [starts, ends, status]
  shiftPc, shiftAsk,    \* one session per call, and what it asks
  readShift,            \* the shift as it has read it
  shiftRaced            \* which kinds of update of a shift have overlapped

shiftVars == <<shifts, shiftPc, shiftAsk, readShift, shiftRaced>>

-------------------------------------------------------------------------------
NotGiven == 0           \* an optional time left out of the request
NoShift == [status |-> "absent"]
NoShiftAsk == [op |-> "none"]

(* Mutant of Transitions: what is over may be cancelled.                   *)
TransitionsLate(st) ==
  CASE st = "scheduled" -> {"active", "cancelled"}
    [] st \in {"active", "completed"} -> {"completed", "cancelled"}
    [] OTHER -> {}

Transitions(st) ==
  CASE st = "scheduled" -> {"active", "cancelled"}
    [] st = "active" -> {"completed", "cancelled"}
    [] OTHER -> {}

ShiftInit ==
  /\ shifts = [s \in ShiftIds |-> NoShift]
  /\ shiftPc = [c \in ShiftCalls |-> "idle"]
  /\ shiftAsk = [c \in ShiftCalls |-> NoShiftAsk]
  /\ readShift = [c \in ShiftCalls |-> NoShift]
  /\ shiftRaced = [s \in ShiftIds |-> {}]

CreateShift(s, from, to) ==
  /\ shifts[s] = NoShift /\ from < to
  /\ shifts' = [shifts EXCEPT ![s] = [starts |-> from, ends |-> to, status |-> "scheduled"]]
  /\ UNCHANGED <<shiftPc, shiftAsk, readShift, shiftRaced>>

(* get_shift, and the tests of what it has returned.                       *)
ReadShift(c, ask, accepted) ==
  LET s == ask.shift
      Rival(d) == shiftPc[d] = "read" /\ shiftAsk[d].shift = s /\ shiftAsk[d].op = ask.op
  IN /\ shiftPc[c] = "idle" /\ shifts[s] # NoShift
     /\ shiftPc' = [shiftPc EXCEPT ![c] = IF accepted THEN "read" ELSE "refused"]
     /\ shiftAsk' = [shiftAsk EXCEPT ![c] = ask]
     /\ readShift' = [readShift EXCEPT ![c] = shifts[s]]
     /\ shiftRaced' = [shiftRaced EXCEPT ![s] =
          IF accepted /\ \E d \in ShiftCalls : Rival(d) THEN @ \cup {ask.op} ELSE @]
     /\ UNCHANGED shifts

(* The time asked for, or else the one that was read.                      *)
Given(time, default) == IF time = NotGiven THEN default ELSE time

(* Mutant of MoveShift: only the times of the request are compared.        *)
MoveShiftUnread(c, s, from, to) ==
  ReadShift(c, [op |-> "move", shift |-> s, starts |-> from, ends |-> to],
            NotGiven \in {from, to} \/ from < to)

MoveShift(c, s, from, to) ==
  ReadShift(c, [op |-> "move", shift |-> s, starts |-> from, ends |-> to],
            shifts[s] # NoShift /\ Given(from, shifts[s].starts) < Given(to, shifts[s].ends))

TurnShift(c, s, st) ==
  ReadShift(c, [op |-> "turn", shift |-> s, status |-> st], st \in Transitions(shifts[s].status))

(* Mutant of MoveCommit: a time left out is written too.                   *)
MoveCommitBlindly(c) ==
  LET ask == shiftAsk[c]
  IN /\ shiftPc[c] = "read" /\ ask.op = "move"
     /\ shifts' = [shifts EXCEPT ![ask.shift].starts = ask.starts, ![ask.shift].ends = ask.ends]
     /\ shiftPc' = [shiftPc EXCEPT ![c] = "done"]
     /\ UNCHANGED <<shiftAsk, readShift, shiftRaced>>

MoveCommit(c) ==
  LET ask == shiftAsk[c]
      read == readShift[c]
  IN /\ shiftPc[c] = "read" /\ ask.op = "move"
     /\ shifts' = [shifts EXCEPT
          ![ask.shift].starts = Column(@, read.starts, Given(ask.starts, read.starts)),
          ![ask.shift].ends = Column(@, read.ends, Given(ask.ends, read.ends))]
     /\ shiftPc' = [shiftPc EXCEPT ![c] = "done"]
     /\ UNCHANGED <<shiftAsk, readShift, shiftRaced>>

TurnCommit(c) ==
  /\ shiftPc[c] = "read" /\ shiftAsk[c].op = "turn"
  /\ shifts' = [shifts EXCEPT ![shiftAsk[c].shift].status = shiftAsk[c].status]
  /\ shiftPc' = [shiftPc EXCEPT ![c] = "done"]
  /\ UNCHANGED <<shiftAsk, readShift, shiftRaced>>

ShiftFails(c) ==
  /\ shiftPc[c] = "read"
  /\ shiftPc' = [shiftPc EXCEPT ![c] = "failed"]
  /\ UNCHANGED <<shifts, shiftAsk, readShift, shiftRaced>>

ShiftNext ==
  \/ \E s \in ShiftIds, from, to \in Times : CreateShift(s, from, to)
  \/ \E c \in ShiftCalls, s \in ShiftIds :
       \/ \E from, to \in Times \cup {NotGiven} : MoveShift(c, s, from, to)
       \/ \E st \in {"scheduled", "active", "completed", "cancelled"} : TurnShift(c, s, st)
  \/ \E c \in ShiftCalls : MoveCommit(c) \/ TurnCommit(c) \/ ShiftFails(c)

ShiftSpec == ShiftInit /\ [][ShiftNext]_shiftVars

-------------------------------------------------------------------------------
ShiftStatuses == {"scheduled", "active", "completed", "cancelled"}
ShiftRows == [starts : Times, ends : Times, status : ShiftStatuses]

(* Every variable has its type.                                            *)
ShiftTypeOK ==
  /\ shifts \in [ShiftIds -> {NoShift} \cup ShiftRows]
  /\ shiftPc \in [ShiftCalls -> {"idle", "refused", "read", "done", "failed"}]
  /\ shiftAsk \in [ShiftCalls -> {NoShiftAsk}
       \cup [op : {"move"}, shift : ShiftIds, starts : Times \cup {NotGiven}, ends : Times \cup {NotGiven}]
       \cup [op : {"turn"}, shift : ShiftIds, status : ShiftStatuses]]
  /\ readShift \in [ShiftCalls -> {NoShift} \cup ShiftRows]
  /\ shiftRaced \in [ShiftIds -> SUBSET {"move", "turn"}]

(* A shift of which no two windows were moved at once starts before it     *)
(* ends, whatever happens to its status meanwhile: partial updates are     *)
(* tested against the half that they do not change.                        *)
StartBeforeEnd ==
  \A s \in ShiftIds : shifts[s] # NoShift /\ "move" \notin shiftRaced[s] =>
    shifts[s].starts < shifts[s].ends

(* A shift whose status no two calls changed at once follows the table,    *)
(* and stays completed or cancelled, whatever happens to its window.       *)
ShiftLifecycle ==
  [][\A s \in ShiftIds :
       shifts[s] # NoShift /\ shifts'[s].status # shifts[s].status =>
         \/ "turn" \in shiftRaced'[s]
         \/ <<shifts[s].status, shifts'[s].status>> \in
              {<<"scheduled", "active">>, <<"scheduled", "cancelled">>,
               <<"active", "completed">>, <<"active", "cancelled">>}]_shiftVars
===============================================================================

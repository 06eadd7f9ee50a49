------------------------- MODULE SessionStoreProofs -------------------------
(* The session row and its guard for any number of turns, writers and         *)
(* generations, and the document in the row for any dates and generations.    *)
EXTENDS SessionStore, Reading, TLAPS

\* Only actor a changes, and to what an actor can be.
Moves(a) == /\ actor' \in [Actor -> ActorState]
            /\ \A b \in Actor : b # a => actor'[b] = actor[b]

\* Every generation in the row, or in an object, has been drawn.
GensIssued == /\ RowExists => db.gen \in issued
              /\ \A a \in Actor : \A o \in actor[a].objs : o.gen \in issued

TypeInv == TypeOK /\ GensIssued

LEMMA NewRowType == ASSUME TypeOK, NEW g \in Gen PROVE NewRow(g) \in Session
BY DEF NewRow, Session, TypeOK

LEMMA WrittenType ==
  ASSUME TypeOK, NEW o \in Session
  PROVE  Written(o) \in Session /\ Written(o).gen = o.gen /\ (o.basis # 0 => Written(o) = o)
BY DEF Written, Session, TypeOK

LEMMA CountType == ASSUME TypeOK, NEW o \in Session, CountWipe(o) PROVE epoch' \in Nat
BY DEF CountWipe, TypeOK

\* The forms in which an actor changes.
LEMMA KeepMoves ==
  ASSUME TypeOK, NEW a \in Actor, NEW o \in Session, actor' = Keep(a, o)
  PROVE  Moves(a) /\ actor'[a] = [actor[a] EXCEPT !.objs = @ \cup {o}]
BY DEF Moves, Keep, TypeOK, ActorState

LEMMA ReplaceMoves ==
  ASSUME TypeOK, NEW a \in Actor, NEW o \in Session, NEW n \in Session, actor' = Replace(a, o, n)
  PROVE  Moves(a) /\ actor'[a] = [actor[a] EXCEPT !.objs = (@ \ {o}) \cup {n}]
BY DEF Moves, Replace, TypeOK, ActorState

\* After a write of its own a turn has the objects of the given state, and may be re-armed.
LEMMA OwnWriteMoves ==
  ASSUME NEW t \in Actor, NEW g \in Gen, NEW state \in [Actor -> ActorState],
         \A b \in Actor : b # t => state[b] = actor[b], AfterOwnWrite(t, state, g)
  PROVE  /\ Moves(t)
         /\ actor'[t].objs = state[t].objs /\ actor'[t].pin = state[t].pin
         /\ \/ actor'[t] = state[t]
            \/ actor'[t].pc = "reaffirmed"
BY DEF AfterOwnWrite, Moves, ActorState

\* A row that is written retires the generation it had, and no other.
LEMMA PutRowType ==
  ASSUME TypeInv, NEW new \in Session \cup {NoRow}, PutRow(new), issued \subseteq issued',
         new # NoRow => new.gen \in issued'
  PROVE  /\ db' \in Session \cup {NoRow} /\ retired' \subseteq issued'
         /\ RowExists' => db'.gen \in issued'
BY DEF TypeInv, TypeOK, GensIssued, PutRow, RowExists, NoRow

-----------------------------------------------------------------------------
(* Types *)

\* An actor whose objects are of drawn generations leaves the types as they are.
LEMMA TypeByActor ==
  ASSUME TypeInv, NEW a \in Actor, Moves(a), issued \subseteq issued', issued' \subseteq Gen,
         \A o \in actor'[a].objs : o.gen \in issued',
         db' \in Session \cup {NoRow}, retired' \subseteq issued', RowExists' => db'.gen \in issued',
         epoch' \in Nat, bypassed' \in BOOLEAN
  PROVE  TypeInv'
<1>1. TypeOK'  BY DEF TypeOK, Moves
<1>2. ASSUME NEW b \in Actor, NEW o \in actor'[b].objs PROVE o.gen \in issued'
  BY <1>2 DEF TypeInv, GensIssued, Moves
<1> QED BY <1>1, <1>2 DEF TypeInv, GensIssued

\* Steps of an actor that leave its objects, pin and guard alone.
LEMMA PcMoves ==
  ASSUME TypeOK, NEW a \in Actor, NEW pc \in {"start", "queued", "working", "reaffirmed", "fresh", "done", "failed"},
         NEW ins \in BOOLEAN, actor' = [actor EXCEPT ![a].pc = pc] \/ actor' = [actor EXCEPT ![a].inserting = ins]
                              \/ actor' = [actor EXCEPT ![a].inserting = ins, ![a].pc = pc]
  PROVE  /\ Moves(a) /\ actor'[a].objs = actor[a].objs
         /\ actor'[a].pin = actor[a].pin /\ actor'[a].guard = actor[a].guard
         /\ actor'[a].pc \in {actor[a].pc, pc}
BY DEF TypeOK, Moves, ActorState

LEMMA SelectMoves ==
  ASSUME TypeInv, NEW a \in Actor, Select(a)
  PROVE  /\ Moves(a)
         /\ \/ actor'[a].objs = actor[a].objs
            \/ RowExists /\ db \in Session /\ actor'[a].objs = actor[a].objs \cup {db}
         /\ actor'[a].pc = actor[a].pc /\ actor'[a].pin = actor[a].pin /\ actor'[a].guard = actor[a].guard
<1>1. CASE RowExists
  <2>1. db \in Session  BY <1>1 DEF TypeInv, TypeOK, RowExists, NoRow
  <2>2. actor' = Keep(a, db)  BY <1>1 DEF Select
  <2>3. Moves(a) /\ actor'[a] = [actor[a] EXCEPT !.objs = @ \cup {db}]  BY <2>1, <2>2, KeepMoves DEF TypeInv
  <2> QED BY <1>1, <2>1, <2>3 DEF TypeInv, TypeOK, ActorState
<1>2. CASE ~RowExists  BY <1>2 DEF Select, TypeInv, TypeOK, Moves, ActorState
<1> QED BY <1>1, <1>2

LEMMA InsertMoves ==
  ASSUME TypeInv, NEW a \in Actor, NEW g \in Gen \ issued, Insert(a, g)
  PROVE  /\ Moves(a)
         /\ \/ /\ ~RowExists /\ PutRow(NewRow(g)) /\ issued' = issued \cup {g} /\ epoch' = epoch + 1
               /\ actor'[a].objs = actor[a].objs \cup {NewRow(g)} /\ actor'[a].pc = actor[a].pc
            \/ /\ UNCHANGED <<db, issued, retired, epoch>>
               /\ actor'[a].objs = actor[a].objs /\ actor'[a].pc = "failed"
         /\ actor'[a].pin = actor[a].pin /\ actor'[a].guard = actor[a].guard
<1>1. NewRow(g) \in Session  BY NewRowType DEF TypeInv
<1>2. CASE RowExists
  <2>1. actor' = [actor EXCEPT ![a].inserting = FALSE, ![a].pc = "failed"] /\ UNCHANGED <<db, issued, retired, epoch>>
    BY <1>2 DEF Insert
  <2>2. actor'[a].pc = "failed"  BY <2>1 DEF TypeInv, TypeOK, ActorState
  <2> QED BY <2>1, <2>2, PcMoves DEF TypeInv
<1>3. CASE ~RowExists
  <2>1. /\ actor' = [actor EXCEPT ![a].inserting = FALSE, ![a].objs = @ \cup {NewRow(g)}]
        /\ PutRow(NewRow(g)) /\ issued' = issued \cup {g} /\ epoch' = epoch + 1
    BY <1>3 DEF Insert
  <2>2. /\ actor'[a].objs = actor[a].objs \cup {NewRow(g)} /\ actor'[a].pc = actor[a].pc
        /\ actor'[a].pin = actor[a].pin /\ actor'[a].guard = actor[a].guard
    BY <2>1 DEF TypeInv, TypeOK, ActorState
  <2>3. Moves(a)  BY <1>1, <2>1, ZenonT(60) DEF Moves, TypeInv, TypeOK, ActorState
  <2> QED BY <1>3, <2>1, <2>2, <2>3
<1> QED BY <1>2, <1>3

LEMMA PinMoves ==
  ASSUME TypeInv, NEW t \in Actor, NEW o \in actor[t].objs, PinGeneration(t, o)
  PROVE  /\ Moves(t) /\ actor'[t].objs = {} /\ actor'[t].pc = "queued" /\ actor'[t].pin = o.gen
         /\ o \in Session
BY DEF PinGeneration, TypeInv, TypeOK, Moves, ActorState, Session

LEMMA SkipMoves ==
  ASSUME TypeInv, NEW t \in Actor, NEW o \in actor[t].objs, SkipIfStaleJob(t, o)
  PROVE  /\ Moves(t) /\ actor'[t].objs = actor[t].objs /\ actor'[t].pin = actor[t].pin
         /\ \/ actor'[t].pc = "failed"
            \/ actor'[t].pc = "working" /\ actor'[t].guard = actor[t].pin
BY DEF SkipIfStaleJob, TypeInv, TypeOK, Moves, ActorState

LEMMA InvalidateMoves ==
  ASSUME TypeInv, NEW a \in Actor, NEW g \in Gen \ issued, NEW o \in actor[a].objs, InvalidateReading(a, o, g)
  PROVE  /\ Moves(a)
         /\ actor'[a].objs = (actor[a].objs \ {o}) \cup {[gen |-> g, basis |-> 0]}
         /\ actor'[a].pc = actor[a].pc /\ actor'[a].pin = actor[a].pin /\ actor'[a].guard = actor[a].guard
<1>1. o \in Session /\ [gen |-> g, basis |-> 0] \in Session  BY DEF TypeInv, TypeOK, ActorState, Session
<1>2. Moves(a) /\ actor'[a] = [actor[a] EXCEPT !.objs = (@ \ {o}) \cup {[gen |-> g, basis |-> 0]}]
  BY <1>1, ReplaceMoves DEF InvalidateReading, TypeInv
<1> QED BY <1>2 DEF TypeInv, TypeOK, ActorState

\* A save under the guard fails, or the row is the guard's and o is written.
LEMMA GuardedSaveMoves ==
  ASSUME TypeInv, NEW t \in Turn, NEW o \in actor[t].objs, GuardedSave(t, o)
  PROVE  /\ Moves(t) /\ actor'[t].pin = actor[t].pin
         /\ \/ /\ UNCHANGED <<db, retired, epoch>>
               /\ actor'[t].objs = actor[t].objs /\ actor'[t].pc = "failed"
            \/ /\ db.gen = actor[t].guard /\ PutRow(Written(o)) /\ CountWipe(o)
               /\ actor'[t].objs = (actor[t].objs \ {o}) \cup {Written(o)}
               /\ \/ actor'[t].pc = actor[t].pc /\ actor'[t].guard = actor[t].guard
                  \/ actor'[t].pc = "reaffirmed"
<1>1. t \in Actor /\ o \in Session  BY DEF Actor, TypeInv, TypeOK, ActorState
<1>2. CASE db.gen # actor[t].guard
  <2>1. actor' = [actor EXCEPT ![t].pc = "failed"] /\ UNCHANGED <<db, retired, epoch>>
    BY <1>2 DEF GuardedSave, SaveIfCurrentGeneration
  <2> QED BY <1>1, <2>1, PcMoves, ZenonT(60) DEF TypeInv, TypeOK, ActorState
<1>3. CASE db.gen = actor[t].guard
  <2>1. /\ PutRow(Written(o)) /\ CountWipe(o)
        /\ IF o.basis = 0 THEN AfterOwnWrite(t, Replace(t, o, Written(o)), o.gen)
                          ELSE actor' = Replace(t, o, Written(o))
    BY <1>3 DEF GuardedSave, SaveIfCurrentGeneration
  <2>2. Written(o) \in Session  BY <1>1, WrittenType DEF TypeInv
  <2>3. PICK state : state = Replace(t, o, Written(o))  OBVIOUS
  <2>4. /\ state \in [Actor -> ActorState] /\ \A b \in Actor : b # t => state[b] = actor[b]
        /\ state[t] = [actor[t] EXCEPT !.objs = (@ \ {o}) \cup {Written(o)}]
    BY <1>1, <2>2, <2>3 DEF Replace, TypeInv, TypeOK, ActorState
  <2>5. /\ state[t].objs = (actor[t].objs \ {o}) \cup {Written(o)} /\ state[t].pc = actor[t].pc
        /\ state[t].pin = actor[t].pin /\ state[t].guard = actor[t].guard
    BY <1>1, <2>4 DEF TypeInv, TypeOK, ActorState
  <2>6. CASE actor' = state  BY <1>3, <2>1, <2>4, <2>5, <2>6 DEF Moves
  <2>7. CASE AfterOwnWrite(t, state, o.gen)
    <3>1. o.gen \in Gen  BY <1>1 DEF Session
    <3>2. Moves(t) /\ actor'[t].objs = state[t].objs /\ actor'[t].pin = state[t].pin
          /\ (actor'[t] = state[t] \/ actor'[t].pc = "reaffirmed")
      BY <1>1, <2>4, <2>7, <3>1, OwnWriteMoves
    <3> QED BY <1>3, <2>1, <2>5, <3>2
  <2> QED BY <2>1, <2>3, <2>6, <2>7
<1> QED BY <1>2, <1>3

LEMMA UpsertMoves ==
  ASSUME TypeInv, NEW w \in Writer, NEW o \in actor[w].objs, Upsert(w, o)
  PROVE  Moves(w) /\ actor'[w].objs = (actor[w].objs \ {o}) \cup {Written(o)} /\ o \in Session
<1>1. w \in Actor /\ o \in Session  BY DEF Actor, TypeInv, TypeOK, ActorState
<1>2. Written(o) \in Session  BY <1>1, WrittenType DEF TypeInv
<1> QED BY <1>1, <1>2, ZenonT(60) DEF Upsert, Replace, Moves, TypeInv, TypeOK, ActorState

LEMMA ResetMoves ==
  ASSUME TypeInv, NEW a \in Actor, NEW g \in Gen \ issued, Reset(a, g)
  PROVE  /\ Moves(a) /\ PutRow(NewRow(g)) /\ issued' = issued \cup {g} /\ epoch' = epoch + 1
         /\ actor'[a].pin = actor[a].pin
         /\ actor'[a].objs = actor[a].objs \/ actor'[a].objs = actor[a].objs \cup {NewRow(g)}
         /\ a \in Turn => \/ actor'[a].pc = actor[a].pc /\ actor'[a].guard = actor[a].guard
                          \/ actor'[a].pc = "reaffirmed"
<1>1. NewRow(g) \in Session  BY NewRowType DEF TypeInv
<1>2. CASE a \in Turn
  <2>1. AfterOwnWrite(a, Keep(a, NewRow(g)), g)  BY <1>2 DEF Reset
  <2>2. PICK state : state = Keep(a, NewRow(g))  OBVIOUS
  <2>3. /\ state \in [Actor -> ActorState] /\ \A b \in Actor : b # a => state[b] = actor[b]
        /\ state[a].objs = actor[a].objs \cup {NewRow(g)} /\ state[a].pc = actor[a].pc
        /\ state[a].pin = actor[a].pin /\ state[a].guard = actor[a].guard
    BY <1>1, <2>2 DEF Keep, TypeInv, TypeOK, ActorState
  <2>4. Moves(a) /\ actor'[a].objs = state[a].objs /\ actor'[a].pin = state[a].pin
        /\ (actor'[a] = state[a] \/ actor'[a].pc = "reaffirmed")
    BY <2>1, <2>2, <2>3, OwnWriteMoves
  <2> QED BY <2>3, <2>4 DEF Reset
<1>3. CASE a \notin Turn
  <2>1. actor' = [actor EXCEPT ![a].pc = "done"]  BY <1>3 DEF Reset
  <2> QED BY <1>3, <2>1, PcMoves DEF Reset, TypeInv
<1> QED BY <1>2, <1>3

\* Each step in turn: the row first, then the objects of the actor that moved.
LEMMA TypeStep == TypeInv /\ [Next]_vars => TypeInv'
<1> SUFFICES ASSUME TypeInv, [Next]_vars PROVE TypeInv'
  OBVIOUS
<1> USE GenAssumption
<1>a. TypeOK  BY DEF TypeInv
<1>b. \A b \in Actor : \A o \in actor[b].objs : o \in Session /\ o.gen \in issued
  BY DEF TypeInv, TypeOK, GensIssued, ActorState
<1>c. /\ db \in Session \cup {NoRow} /\ retired \subseteq issued /\ (RowExists => db.gen \in issued)
      /\ issued \subseteq Gen /\ epoch \in Nat /\ bypassed \in BOOLEAN
  BY DEF TypeInv, TypeOK, GensIssued
<1>1. ASSUME NEW a \in Actor, Select(a) PROVE TypeInv'
  <2>1. UNCHANGED <<db, issued, retired, epoch, bypassed>>  BY <1>1 DEF Select
  <2>2. Moves(a) /\ \A o \in actor'[a].objs : o.gen \in issued  BY <1>b, <1>c, <1>1, SelectMoves
  <2> QED BY <1>c, <2>1, <2>2, TypeByActor DEF RowExists
<1>2. ASSUME NEW a \in Actor, NEW g \in Gen \ issued, Insert(a, g) PROVE TypeInv'
  <2>1. Moves(a) /\ UNCHANGED bypassed  BY <1>2, InsertMoves DEF Insert
  <2>2. CASE /\ PutRow(NewRow(g)) /\ issued' = issued \cup {g} /\ epoch' = epoch + 1
             /\ actor'[a].objs = actor[a].objs \cup {NewRow(g)}
    <3>1. NewRow(g) \in Session /\ NewRow(g).gen = g  BY <1>a, NewRowType DEF NewRow
    <3>2. db' \in Session \cup {NoRow} /\ retired' \subseteq issued' /\ (RowExists' => db'.gen \in issued')
      BY <2>2, <3>1, PutRowType
    <3> QED BY <1>b, <1>c, <2>1, <2>2, <3>1, <3>2, TypeByActor
  <2>3. CASE UNCHANGED <<db, issued, retired, epoch>> /\ actor'[a].objs = actor[a].objs
    BY <1>b, <1>c, <2>1, <2>3, TypeByActor DEF RowExists
  <2> QED BY <1>2, <2>2, <2>3, InsertMoves
<1>3. ASSUME NEW a \in Actor, NEW g \in Gen \ issued, Reset(a, g) PROVE TypeInv'
  <2>1. /\ Moves(a) /\ PutRow(NewRow(g)) /\ issued' = issued \cup {g} /\ epoch' = epoch + 1
        /\ actor'[a].objs \subseteq actor[a].objs \cup {NewRow(g)} /\ UNCHANGED bypassed
    BY <1>3, ResetMoves DEF Reset
  <2>2. NewRow(g) \in Session /\ NewRow(g).gen = g  BY <1>a, NewRowType DEF NewRow
  <2>3. db' \in Session \cup {NoRow} /\ retired' \subseteq issued' /\ (RowExists' => db'.gen \in issued')
    BY <2>1, <2>2, PutRowType
  <2> QED BY <1>b, <1>c, <2>1, <2>2, <2>3, TypeByActor
<1>4. ASSUME NEW a \in Actor, NEW g \in Gen \ issued, NEW o \in actor[a].objs, InvalidateReading(a, o, g)
      PROVE  TypeInv'
  <2>1. UNCHANGED <<db, retired, epoch, bypassed>> /\ issued' = issued \cup {g}  BY <1>4 DEF InvalidateReading
  <2>2. Moves(a) /\ \A p \in actor'[a].objs : p.gen \in issued'  BY <1>b, <1>4, <2>1, InvalidateMoves
  <2> QED BY <1>c, <2>1, <2>2, TypeByActor DEF RowExists
<1>5. ASSUME NEW t \in Turn, NEW o \in actor[t].objs, PinGeneration(t, o) PROVE TypeInv'
  <2>1. UNCHANGED <<db, issued, retired, epoch, bypassed>>  BY <1>5 DEF PinGeneration
  <2>2. t \in Actor /\ Moves(t) /\ actor'[t].objs = {}  BY <1>5, PinMoves DEF Actor
  <2> QED BY <1>c, <2>1, <2>2, TypeByActor DEF RowExists
<1>6. ASSUME NEW t \in Turn, NEW o \in actor[t].objs, SkipIfStaleJob(t, o) PROVE TypeInv'
  <2>1. UNCHANGED <<db, issued, retired, epoch, bypassed>>  BY <1>6 DEF SkipIfStaleJob
  <2>2. t \in Actor /\ Moves(t) /\ actor'[t].objs = actor[t].objs  BY <1>6, SkipMoves DEF Actor
  <2> QED BY <1>b, <1>c, <2>1, <2>2, TypeByActor DEF RowExists
<1>7. ASSUME NEW t \in Turn, NEW o \in actor[t].objs, GuardedSave(t, o) PROVE TypeInv'
  <2>1. t \in Actor /\ Moves(t) /\ UNCHANGED issued /\ bypassed' \in BOOLEAN  BY <1>7, GuardedSaveMoves DEF Actor, GuardedSave
  <2>2. o \in Session /\ o.gen \in issued  BY <1>b, <2>1
  <2>3. CASE UNCHANGED <<db, retired, epoch>> /\ actor'[t].objs = actor[t].objs
    BY <1>b, <1>c, <2>1, <2>3, TypeByActor DEF RowExists
  <2>4. CASE PutRow(Written(o)) /\ CountWipe(o) /\ actor'[t].objs = (actor[t].objs \ {o}) \cup {Written(o)}
    <3>1. Written(o) \in Session /\ Written(o).gen = o.gen /\ epoch' \in Nat
      BY <1>a, <2>2, <2>4, WrittenType, CountType
    <3>2. db' \in Session \cup {NoRow} /\ retired' \subseteq issued' /\ (RowExists' => db'.gen \in issued')
      BY <2>1, <2>2, <2>4, <3>1, PutRowType
    <3> QED BY <1>b, <1>c, <2>1, <2>2, <2>4, <3>1, <3>2, TypeByActor
  <2> QED BY <1>7, <2>3, <2>4, GuardedSaveMoves
<1>8. ASSUME NEW t \in Turn, CheckFreshOrRaise(t) \/ SendReply(t) PROVE TypeInv'
  <2>1. UNCHANGED <<db, issued, retired, epoch, bypassed>>  BY <1>8 DEF CheckFreshOrRaise, SendReply
  <2>2. t \in Actor  BY DEF Actor
  <2>3. PICK pc \in {"fresh", "failed", "done"} : actor' = [actor EXCEPT ![t].pc = pc]
    BY <1>8 DEF CheckFreshOrRaise, SendReply
  <2>4. Moves(t) /\ actor'[t].objs = actor[t].objs  BY <1>a, <2>2, <2>3, PcMoves
  <2> QED BY <1>b, <1>c, <2>1, <2>2, <2>4, TypeByActor DEF RowExists
<1>9. ASSUME NEW w \in Writer, NEW o \in actor[w].objs, Upsert(w, o) PROVE TypeInv'
  <2>1. /\ w \in Actor /\ Moves(w) /\ UNCHANGED issued /\ bypassed' = TRUE /\ PutRow(Written(o)) /\ CountWipe(o)
        /\ actor'[w].objs = (actor[w].objs \ {o}) \cup {Written(o)}
    BY <1>9, UpsertMoves DEF Actor, Upsert
  <2>2. o \in Session /\ o.gen \in issued  BY <1>b, <2>1
  <2>3. Written(o) \in Session /\ Written(o).gen = o.gen /\ epoch' \in Nat
    BY <1>a, <2>1, <2>2, WrittenType, CountType
  <2>4. db' \in Session \cup {NoRow} /\ retired' \subseteq issued' /\ (RowExists' => db'.gen \in issued')
    BY <2>1, <2>2, <2>3, PutRowType
  <2> QED BY <1>b, <1>c, <2>1, <2>2, <2>3, <2>4, TypeByActor
<1>10. ASSUME DeleteSender \/ AnonymizeSender PROVE TypeInv'
  <2>1. PICK new \in Session \cup {NoRow} : PutRow(new) /\ (new # NoRow => new.gen \in issued)
    <3>1. CASE DeleteSender  BY <3>1 DEF DeleteSender
    <3>2. CASE AnonymizeSender
      <4>1. db.gen \in Gen /\ db.gen \in issued  BY <1>c, <3>2 DEF AnonymizeSender
      <4>2. NewRow(db.gen) \in Session /\ NewRow(db.gen).gen = db.gen  BY <1>a, <4>1, NewRowType DEF NewRow
      <4> QED BY <3>2, <4>1, <4>2 DEF AnonymizeSender
    <3> QED BY <1>10, <3>1, <3>2
  <2>a. UNCHANGED <<actor, issued>> /\ epoch' = epoch + 1 /\ (bypassed' = bypassed \/ bypassed' = TRUE)
    BY <1>10 DEF DeleteSender, AnonymizeSender
  <2>b. bypassed' \in BOOLEAN  BY <1>c, <2>a, Zenon
  <2>2. UNCHANGED <<actor, issued>> /\ epoch' \in Nat /\ bypassed' \in BOOLEAN
    BY <1>c, <2>a, <2>b
  <2>3. db' \in Session \cup {NoRow} /\ retired' \subseteq issued' /\ (RowExists' => db'.gen \in issued')
    BY <2>1, <2>2, PutRowType
  <2> QED BY <2>2, <2>3 DEF TypeInv, TypeOK, GensIssued
<1>11. CASE UNCHANGED vars  BY <1>11 DEF vars, TypeInv, TypeOK, GensIssued, RowExists
<1> QED BY <1>1, <1>2, <1>3, <1>4, <1>5, <1>6, <1>7, <1>8, <1>9, <1>10, <1>11
       DEF Next, DrawsGeneration, TurnStep, WriterStep

LEMMA TypeInit == Init => TypeInv
<1> SUFFICES ASSUME Init PROVE TypeInv
  OBVIOUS
<1>1. actor \in [Actor -> ActorState]  BY DEF Init, ActorState
<1>2. \A a \in Actor : actor[a].objs = {}  BY DEF Init
<1>3. bypassed \in BOOLEAN  BY DEF Init
<1>4. db = NoRow /\ issued = {} /\ retired = {} /\ epoch = 0  BY DEF Init
<1> QED BY <1>1, <1>2, <1>3, <1>4 DEF TypeInv, TypeOK, GensIssued, RowExists, NoRow

\* Whatever the turns, writers and erasures of a sender do, the row, the snapshots
\* and the generations drawn keep their types.
THEOREM StoreTypeCorrect == Spec => []TypeOK
<1>1. TypeInv => TypeOK  BY DEF TypeInv
<1> QED BY <1>1, TypeInit, TypeStep, PTL DEF Spec

-----------------------------------------------------------------------------
(* Currency, as long as nobody writes around the guard *)

\* The row's generation is a live one, and its content is of the last wipe.
RowOK == /\ db.gen \notin retired
         /\ RowExists => db.basis = epoch /\ epoch # 0

\* A snapshot is the row or superseded; one cleared in memory has a generation of its own.
ObjOK(o) == IF o.basis = 0 THEN o.gen \notin retired /\ o.gen # db.gen
                           ELSE o = db \/ o.gen \in retired

\* Two actors never hold the same generation in memory only.
ClearedApart == \A a, b \in Actor : \A o \in actor[a].objs, p \in actor[b].objs :
                  a # b /\ o.basis = 0 /\ p.basis = 0 => o.gen # p.gen

\* Pinned generations are the row's or superseded, and what a turn that is not
\* superseded has loaded is what it is pinned to.
Pinned(t) == LET state == actor[t] IN
  /\ state.pc \in {"start", "queued"} => \A o \in state.objs : o.basis # 0
  /\ state.pc \in {"queued", "working"} =>
       /\ state.pin \in {db.gen} \cup retired
       /\ state.pin \notin retired => \A o \in state.objs : o.basis # 0 => o.gen = state.pin
       /\ state.pin # NoGen
  /\ state.pc = "working" => state.guard = state.pin

Current == /\ RowOK
           /\ \A a \in Actor : \A o \in actor[a].objs : ObjOK(o)
           /\ ClearedApart
           /\ \A t \in Turn : Pinned(t)

StoreInv == TypeInv /\ (~bypassed => Current)

LEMMA ObjsTyped ==
  ASSUME TypeInv
  PROVE  /\ \A a \in Actor : \A o \in actor[a].objs : o \in Session /\ o.gen \in Gen /\ o.gen \in issued
         /\ db \in Session \cup {NoRow} /\ (RowExists <=> db \in Session) /\ db.gen \in Gen \cup {NoGen}
         /\ retired \subseteq issued /\ issued \subseteq Gen /\ epoch \in Nat
         /\ \A a \in Actor : actor[a].pin \in Gen \cup {NoGen}
<1>1. \A a \in Actor : \A o \in actor[a].objs : o \in Session /\ o.gen \in Gen /\ o.gen \in issued
  BY DEF TypeInv, TypeOK, GensIssued, ActorState, Session
<1>2. db \in Session \cup {NoRow} /\ (RowExists <=> db \in Session) /\ db.gen \in Gen \cup {NoGen}
  BY GenAssumption DEF TypeInv, TypeOK, RowExists, Session, NoRow
<1>3. \A a \in Actor : actor[a].pin \in Gen \cup {NoGen}  BY DEF TypeInv, TypeOK, ActorState
<1> QED BY <1>1, <1>2, <1>3 DEF TypeInv, TypeOK

\* A live generation stays live or is retired, and none comes back.
RowStep == /\ retired \subseteq retired'
           /\ db.gen = NoGen \/ db.gen \in {db'.gen} \cup retired'

\* A row that does not change leaves every object what it was.
LEMMA RowStays ==
  ASSUME UNCHANGED <<db, retired, epoch>>, RowOK
  PROVE  RowOK' /\ RowStep /\ \A o \in Session : ObjOK(o) => ObjOK(o)'
BY DEF RowOK, RowStep, ObjOK, RowExists

\* A row that gets a generation never seen in it supersedes every snapshot of it.
LEMMA RowMoves ==
  ASSUME TypeInv, RowOK, NEW new \in Session \cup {NoRow}, PutRow(new), new.gen \notin retired, new.gen # db.gen,
         new # NoRow => new.basis = epoch' /\ epoch' # 0
  PROVE  /\ RowOK' /\ RowStep
         /\ \A o \in Session : ObjOK(o) /\ (o.basis = 0 => o.gen # new.gen) => ObjOK(o)'
<1>1. retired' = (IF RowExists THEN retired \cup {db.gen} ELSE retired) /\ db' = new  BY DEF PutRow
<1>2. RowOK'  BY <1>1, GenAssumption DEF RowOK, RowExists, NoRow, Session
<1>3. RowStep  BY <1>1 DEF RowStep, RowExists
<1>4. ASSUME NEW o \in Session, ObjOK(o), o.basis = 0 => o.gen # new.gen PROVE ObjOK(o)'
  <2>1. CASE o.basis = 0  BY <1>1, <1>4, <2>1 DEF ObjOK
  <2>2. CASE o.basis # 0
    <3>1. o = db => RowExists  BY <1>4, ObjsTyped
    <3> QED BY <1>1, <1>4, <2>2, <3>1 DEF ObjOK
  <2> QED BY <2>1, <2>2
<1> QED BY <1>2, <1>3, <1>4

\* A turn whose pin is kept, and that got only the row or what it wrote, stays pinned.
LEMMA PinKept ==
  ASSUME TypeInv, NEW t \in Actor, Pinned(t), RowStep, actor'[t].pin = actor[t].pin,
         \/ actor'[t].pc = actor[t].pc /\ actor'[t].guard = actor[t].guard
         \/ actor'[t].pc \notin {"start", "queued", "working"},
         \A o \in actor'[t].objs : \/ o \in actor[t].objs
                                   \/ o.basis = 0 /\ actor[t].pc \notin {"start", "queued"}
                                   \/ o.basis # 0 /\ o.gen = db'.gen
  PROVE  Pinned(t)'
<1>1. CASE actor'[t].pc \notin {"start", "queued", "working"}  BY <1>1 DEF Pinned
<1>2. CASE actor'[t].pc = actor[t].pc /\ actor'[t].guard = actor[t].guard
  <2>1. actor[t].pc \in {"start", "queued"} => \A o \in actor'[t].objs : o.basis # 0  BY DEF Pinned
  <2>2. ASSUME actor[t].pc \in {"queued", "working"}
        PROVE  /\ actor[t].pin \in {db'.gen} \cup retired' /\ actor[t].pin # NoGen
               /\ actor[t].pin \notin retired' => \A o \in actor'[t].objs : o.basis # 0 => o.gen = actor[t].pin
    <3>1. actor[t].pin \in {db'.gen} \cup retired' /\ actor[t].pin # NoGen  BY <2>2 DEF Pinned, RowStep
    <3>2. actor[t].pin \notin retired' => actor[t].pin \notin retired /\ actor[t].pin = db'.gen  BY <3>1 DEF RowStep
    <3> QED BY <2>2, <3>1, <3>2 DEF Pinned
  <2> QED BY <1>2, <2>1, <2>2 DEF Pinned
<1> QED BY <1>1, <1>2

\* The step of one actor: the other actors' objects are the same ones.
LEMMA CurrentByActor ==
  ASSUME TypeInv, Current, NEW a \in Actor, Moves(a), RowOK', RowStep,
         \A o \in actor'[a].objs : ObjOK(o)',
         \A b \in Actor : b # a => \A o \in actor[b].objs : ObjOK(o)',
         \A o \in actor'[a].objs : o.basis = 0 => o \in actor[a].objs \/ o.gen \notin issued,
         a \in Turn => Pinned(a)'
  PROVE  Current'
<1>1. \A b \in Actor : b # a => actor'[b] = actor[b]  BY DEF Moves
<1>2. \A b \in Actor : \A o \in actor'[b].objs : ObjOK(o)'  BY <1>1
<1>3. ClearedApart'
  <2> SUFFICES ASSUME NEW b \in Actor, NEW c \in Actor, NEW o \in actor'[b].objs, NEW p \in actor'[c].objs,
                      b # c, o.basis = 0, p.basis = 0
               PROVE  o.gen # p.gen
    BY DEF ClearedApart
  <2>1. ClearedApart  BY DEF Current
  <2>2. CASE b # a /\ c # a  BY <1>1, <2>1, <2>2 DEF ClearedApart
  <2>3. CASE b = a  BY <1>1, <2>1, <2>3, ObjsTyped DEF ClearedApart
  <2>4. CASE c = a  BY <1>1, <2>1, <2>4, ObjsTyped DEF ClearedApart
  <2> QED BY <2>2, <2>3, <2>4
<1>4. ASSUME NEW t \in Turn PROVE Pinned(t)'
  <2>1. t \in Actor /\ Pinned(t)  BY DEF Actor, Current
  <2>2. CASE t # a  BY <1>1, <2>1, <2>2, PinKept
  <2> QED BY <2>2
<1> QED BY <1>2, <1>3, <1>4 DEF Current

\* Each step that is not around the guard.
LEMMA CurrentStep == TypeInv /\ Current /\ [Next]_vars /\ ~bypassed' => Current'
<1> SUFFICES ASSUME TypeInv, Current, [Next]_vars, ~bypassed' PROVE Current'
  OBVIOUS
<1>a. /\ RowOK /\ \A a \in Actor : \A o \in actor[a].objs : o \in Session /\ o.gen \in issued /\ ObjOK(o)
      /\ \A t \in Turn : Pinned(t)
  BY ObjsTyped DEF Current
<1>b. Turn \subseteq Actor  BY DEF Actor
<1>1. ASSUME NEW a \in Actor, Select(a) PROVE Current'
  <2>1. UNCHANGED <<db, retired, epoch>>  BY <1>1 DEF Select
  <2>2. RowOK' /\ RowStep /\ \A o \in Session : ObjOK(o) => ObjOK(o)'  BY <1>a, <2>1, RowStays
  <2>3. /\ Moves(a) /\ actor'[a].pc = actor[a].pc /\ actor'[a].pin = actor[a].pin /\ actor'[a].guard = actor[a].guard
        /\ \A o \in actor'[a].objs : o \in actor[a].objs \/ (o = db /\ RowExists)
    BY <1>1, SelectMoves
  <2>4. RowExists => db.basis # 0  BY <1>a DEF RowOK
  <2>5. \A o \in actor'[a].objs : o.basis = 0 => o \in actor[a].objs  BY <2>3, <2>4
  <2>6. \A o \in actor'[a].objs : ObjOK(o)'
    BY <1>a, <2>1, <2>2, <2>3, <2>4 DEF ObjOK
  <2>7. a \in Turn => Pinned(a)'
    BY <1>a, <2>1, <2>2, <2>3, <2>4, PinKept
  <2> QED BY <1>a, <2>2, <2>3, <2>5, <2>6, <2>7, CurrentByActor
<1>2. ASSUME NEW a \in Actor, NEW g \in Gen \ issued, PutRow(NewRow(g)), epoch' = epoch + 1, Moves(a),
             actor'[a].objs \subseteq actor[a].objs \cup {NewRow(g)}, actor'[a].pin = actor[a].pin,
             a \in Turn => \/ actor'[a].pc = actor[a].pc /\ actor'[a].guard = actor[a].guard
                           \/ actor'[a].pc = "reaffirmed"
      PROVE  Current'
  <2>n. PICK n : n = NewRow(g)  OBVIOUS
  <2>1. /\ n \in Session /\ n.gen = g /\ n.basis = epoch' /\ epoch' # 0
        /\ g \notin retired /\ g # db.gen /\ db' = n
    BY <1>2, <2>n, NewRowType, ObjsTyped, GenAssumption DEF NewRow, PutRow, TypeInv, GensIssued, RowExists
  <2>2. /\ RowOK' /\ RowStep
        /\ \A o \in Session : ObjOK(o) /\ (o.basis = 0 => o.gen # g) => ObjOK(o)'
    BY <1>a, <1>2, <2>n, <2>1, RowMoves
  <2>3. \A b \in Actor : \A o \in actor[b].objs : ObjOK(o)'  BY <1>a, <2>2
  <2>4. ObjOK(n)'  BY <2>1 DEF ObjOK
  <2>5. \A o \in actor'[a].objs : ObjOK(o)'  BY <1>2, <2>n, <2>3, <2>4
  <2>6. \A o \in actor'[a].objs : o.basis = 0 => o \in actor[a].objs  BY <1>2, <2>n, <2>1
  <2>7. a \in Turn => Pinned(a)'  BY <1>a, <1>2, <2>n, <2>1, <2>2, PinKept
  <2> QED BY <1>2, <2>2, <2>3, <2>5, <2>6, <2>7, CurrentByActor
<1>3. ASSUME NEW a \in Actor, UNCHANGED <<db, retired, epoch>>, Moves(a),
             actor'[a].objs \subseteq actor[a].objs, a \in Turn => Pinned(a)'
      PROVE  Current'
  <2>1. RowOK' /\ RowStep /\ \A o \in Session : ObjOK(o) => ObjOK(o)'  BY <1>a, <1>3, RowStays
  <2>2. \A b \in Actor : \A o \in actor[b].objs : ObjOK(o)'  BY <1>a, <2>1
  <2> QED BY <1>3, <2>1, <2>2, CurrentByActor
<1>4. ASSUME NEW a \in Actor, NEW g \in Gen \ issued, NEW o \in actor[a].objs, InvalidateReading(a, o, g)
      PROVE  Current'
  <2>1. UNCHANGED <<db, retired, epoch>> /\ actor[a].pc \notin {"start", "queued"}  BY <1>4 DEF InvalidateReading, Busy
  <2>2. RowOK' /\ RowStep /\ \A p \in Session : ObjOK(p) => ObjOK(p)'  BY <1>a, <2>1, RowStays
  <2>3. PICK n : n = [gen |-> g, basis |-> 0]  OBVIOUS
  <2>4. n.gen = g /\ n.basis = 0 /\ ObjOK(n)'
    <3>1. g \notin retired /\ g # db.gen  BY ObjsTyped, GenAssumption DEF TypeInv, GensIssued, RowExists
    <3> QED BY <2>1, <2>3, <3>1 DEF ObjOK
  <2>5. /\ Moves(a) /\ actor'[a].pc = actor[a].pc /\ actor'[a].pin = actor[a].pin /\ actor'[a].guard = actor[a].guard
        /\ \A p \in actor'[a].objs : p \in actor[a].objs \/ p = n
    BY <1>4, <2>3, InvalidateMoves
  <2>6. \A p \in actor'[a].objs : ObjOK(p)'  BY <1>a, <2>2, <2>4, <2>5
  <2>7. a \in Turn => Pinned(a)'  BY <1>a, <2>1, <2>2, <2>4, <2>5, PinKept
  <2>8. \A b \in Actor : \A p \in actor[b].objs : ObjOK(p)'  BY <1>a, <2>2
  <2>9. \A p \in actor'[a].objs : p.basis = 0 => p \in actor[a].objs \/ p.gen \notin issued  BY <2>4, <2>5
  <2> QED BY <2>2, <2>5, <2>6, <2>7, <2>8, <2>9, CurrentByActor
<1>5. ASSUME NEW t \in Turn, NEW o \in actor[t].objs, PinGeneration(t, o) PROVE Current'
  <2>1. UNCHANGED <<db, retired, epoch>> /\ actor[t].pc = "start"  BY <1>5 DEF PinGeneration
  <2>2. t \in Actor /\ Moves(t) /\ actor'[t].objs = {} /\ actor'[t].pc = "queued" /\ actor'[t].pin = o.gen
    BY <1>b, <1>5, PinMoves
  <2>3. o \in Session /\ o.gen \in Gen /\ ObjOK(o) /\ o.basis # 0  BY <1>a, <2>1, <2>2, ObjsTyped DEF Pinned
  <2>4. o.gen \in {db.gen} \cup retired /\ o.gen # NoGen  BY <2>3, GenAssumption DEF ObjOK
  <2>5. Pinned(t)'  BY <2>1, <2>2, <2>4 DEF Pinned
  <2> QED BY <1>3, <2>1, <2>2, <2>5
<1>6. ASSUME NEW t \in Turn, NEW o \in actor[t].objs, SkipIfStaleJob(t, o) PROVE Current'
  <2>1. UNCHANGED <<db, retired, epoch>> /\ actor[t].pc = "queued"  BY <1>6 DEF SkipIfStaleJob
  <2>2. /\ t \in Actor /\ Moves(t) /\ actor'[t].objs = actor[t].objs /\ actor'[t].pin = actor[t].pin
        /\ \/ actor'[t].pc = "failed"
           \/ actor'[t].pc = "working" /\ actor'[t].guard = actor[t].pin
    BY <1>b, <1>6, SkipMoves
  <2>3. Pinned(t)'  BY <1>a, <2>1, <2>2 DEF Pinned
  <2> QED BY <1>3, <2>1, <2>2, <2>3
<1>7. ASSUME NEW t \in Turn, NEW o \in actor[t].objs, GuardedSave(t, o) PROVE Current'
  <2>1. t \in Actor /\ Moves(t) /\ actor'[t].pin = actor[t].pin  BY <1>b, <1>7, GuardedSaveMoves
  <2>2. actor[t].pc = "working"  BY <1>7 DEF GuardedSave, Busy
  <2>3. CASE UNCHANGED <<db, retired, epoch>> /\ actor'[t].objs = actor[t].objs /\ actor'[t].pc = "failed"
    <3>1. Pinned(t)'  BY <2>3 DEF Pinned
    <3> QED BY <1>3, <2>1, <2>3, <3>1
  <2>4. CASE /\ db.gen = actor[t].guard /\ PutRow(Written(o)) /\ CountWipe(o)
             /\ actor'[t].objs = (actor[t].objs \ {o}) \cup {Written(o)}
             /\ \/ actor'[t].pc = actor[t].pc /\ actor'[t].guard = actor[t].guard
                \/ actor'[t].pc = "reaffirmed"
    <3>a. o \in Session /\ ObjOK(o) /\ o.gen \in Gen /\ epoch \in Nat  BY <1>a, <2>1, ObjsTyped
    <3>b. Pinned(t) /\ actor[t].guard = actor[t].pin /\ actor[t].pin = db.gen /\ db.gen \notin retired
      BY <1>a, <2>2, <2>4 DEF Pinned, RowOK
    \* An object that was not cleared is the row itself.
    <3>1. CASE o.basis # 0
      <4>1. o = db /\ Written(o) = o
        BY <2>2, <3>a, <3>b, <3>1, WrittenType DEF Pinned, ObjOK, TypeInv
      <4>2. UNCHANGED <<db, retired, epoch>> /\ actor'[t].objs = actor[t].objs
        BY <2>4, <3>1, <4>1 DEF PutRow, CountWipe
      <4>3. Pinned(t)'
        <5>1. RowStep  BY <1>a, <4>2, RowStays
        <5> QED BY <2>1, <2>4, <3>b, <4>2, <5>1, PinKept
      <4> QED BY <1>3, <2>1, <4>2, <4>3
    \* One that was carries a generation nobody else has.
    <3>2. CASE o.basis = 0
      <4>1. PICK n : n = Written(o)  OBVIOUS
      <4>2. n \in Session /\ n.gen = o.gen /\ n.basis = epoch' /\ epoch' # 0 /\ db' = n
        BY <2>4, <3>a, <3>2, <4>1, WrittenType DEF Written, CountWipe, PutRow, TypeInv, Session
      <4>3. n.gen \notin retired /\ n.gen # db.gen  BY <3>a, <3>2, <4>2 DEF ObjOK
      <4>4. /\ RowOK' /\ RowStep
            /\ \A p \in Session : ObjOK(p) /\ (p.basis = 0 => p.gen # o.gen) => ObjOK(p)'
        BY <1>a, <2>4, <4>1, <4>2, <4>3, RowMoves
      <4>5. ASSUME NEW b \in Actor, b # t, NEW p \in actor[b].objs PROVE ObjOK(p)'
        BY <1>a, <2>1, <3>2, <4>4, <4>5 DEF Current, ClearedApart
      <4>6. ASSUME NEW p \in actor[t].objs, p # o PROVE ObjOK(p)'
        <5>1. p \in Session /\ ObjOK(p)  BY <1>a, <2>1
        <5>2. p.basis = 0 => p.gen # o.gen  BY <3>a, <3>2, <4>6, <5>1 DEF Session
        <5> QED BY <4>4, <5>1, <5>2
      <4>7. ObjOK(n)'  BY <4>2 DEF ObjOK
      <4>8. \A p \in actor'[t].objs : ObjOK(p)'  BY <2>4, <4>1, <4>6, <4>7
      <4>9. \A p \in actor'[t].objs : p.basis = 0 => p \in actor[t].objs  BY <2>4, <4>1, <4>2
      <4>10. Pinned(t)'
        BY <2>1, <2>2, <2>4, <3>b, <4>1, <4>2, <4>4, PinKept
      <4> QED BY <2>1, <4>4, <4>5, <4>8, <4>9, <4>10, CurrentByActor
    <3> QED BY <3>1, <3>2
  <2> QED BY <1>b, <1>7, <2>3, <2>4, GuardedSaveMoves
<1>8. ASSUME NEW t \in Turn, CheckFreshOrRaise(t) \/ SendReply(t) PROVE Current'
  <2>1. UNCHANGED <<db, retired, epoch>>  BY <1>8 DEF CheckFreshOrRaise, SendReply
  <2>2. PICK pc \in {"fresh", "failed", "done"} : actor' = [actor EXCEPT ![t].pc = pc]
    BY <1>8 DEF CheckFreshOrRaise, SendReply
  <2>3. t \in Actor /\ Moves(t) /\ actor'[t].objs = actor[t].objs  BY <1>b, <2>2, PcMoves DEF TypeInv
  <2>4. actor'[t].pc = pc  BY <2>2, <2>3 DEF TypeInv, TypeOK, ActorState
  <2>5. Pinned(t)'  BY <2>4 DEF Pinned
  <2> QED BY <1>3, <2>1, <2>3, <2>5
<1>9. ASSUME NEW w \in Writer, NEW o \in actor[w].objs, Upsert(w, o) PROVE FALSE  BY <1>9 DEF Upsert
<1>10. ASSUME AnonymizeSender PROVE FALSE  BY <1>10 DEF AnonymizeSender
<1>11. CASE DeleteSender
  <2>1. PutRow(NoRow) /\ UNCHANGED actor /\ db' = NoRow  BY <1>11 DEF DeleteSender, PutRow
  <2>2. NoRow.gen \notin retired /\ NoRow.gen # db.gen  BY <1>11, ObjsTyped, GenAssumption DEF NoRow, DeleteSender, RowExists
  <2>3. RowOK' /\ RowStep /\ \A o \in Session : ObjOK(o) /\ (o.basis = 0 => o.gen # NoGen) => ObjOK(o)'
    BY <1>a, <2>1, <2>2, RowMoves DEF NoRow
  <2>4. \A a \in Actor : \A o \in actor[a].objs : o.gen # NoGen  BY ObjsTyped, GenAssumption
  <2>5. \A a \in Actor : \A o \in actor'[a].objs : ObjOK(o)'  BY <1>a, <2>1, <2>3, <2>4
  <2>6. ClearedApart'  BY <2>1 DEF Current, ClearedApart
  <2>7. \A t \in Turn : Pinned(t)'  BY <1>a, <1>b, <2>1, <2>3, PinKept
  <2> QED BY <2>3, <2>5, <2>6, <2>7 DEF Current
<1>12. CASE UNCHANGED vars
  <2>1. UNCHANGED <<db, retired, epoch, actor, issued>>  BY <1>12 DEF vars
  <2> QED BY <2>1 DEF Current, RowOK, RowExists, ObjOK, ClearedApart, Pinned
<1>13. ASSUME NEW a \in Actor, NEW g \in Gen \ issued, Insert(a, g) PROVE Current'
  <2>1. CASE UNCHANGED <<db, retired, epoch>> /\ actor'[a].objs = actor[a].objs /\ actor'[a].pc = "failed"
    <3>1. a \in Turn => Pinned(a)'  BY <2>1 DEF Pinned
    <3> QED BY <1>3, <1>13, <2>1, <3>1, InsertMoves
  <2> QED BY <1>2, <1>13, <2>1, InsertMoves
<1>14. ASSUME NEW a \in Actor, NEW g \in Gen \ issued, Reset(a, g) PROVE Current'
  BY <1>2, <1>14, ResetMoves
<1> QED BY <1>1, <1>4, <1>5, <1>6, <1>7, <1>8, <1>9, <1>10, <1>11, <1>12, <1>13, <1>14
       DEF Next, DrawsGeneration, TurnStep, WriterStep

LEMMA StoreInit == Init => StoreInv
<1> SUFFICES ASSUME Init PROVE StoreInv
  OBVIOUS
<1>1. \A a \in Actor : actor[a].objs = {} /\ (a \in Turn => actor[a].pc = "start")  BY DEF Init
<1>2. db = NoRow /\ retired = {}  BY DEF Init
<1>3. Current  BY <1>1, <1>2 DEF Current, RowOK, RowExists, NoRow, ClearedApart, Pinned, Actor
<1> QED BY <1>3, TypeInit DEF StoreInv

LEMMA BypassedStays == TypeInv /\ [Next]_vars /\ ~bypassed' => ~bypassed
BY DEF Next, DrawsGeneration, TurnStep, WriterStep, Select, Insert, Reset, InvalidateReading, PinGeneration,
       SkipIfStaleJob, GuardedSave, CheckFreshOrRaise, SendReply, Upsert, DeleteSender, AnonymizeSender, vars

LEMMA StoreInvariant == Spec => []StoreInv
<1>1. StoreInv /\ [Next]_vars => StoreInv'  BY TypeStep, CurrentStep, BypassedStays DEF StoreInv
<1> QED BY <1>1, StoreInit, PTL DEF Spec

\* Until somebody writes around the guard, a generation the row was moved away from
\* never comes back: a turn pinned to it stays superseded.
THEOREM RetiredStays == Spec => []RetiredStaysRetired
<1>1. StoreInv => RetiredStaysRetired  BY DEF StoreInv, Current, RowOK, RetiredStaysRetired
<1> QED BY <1>1, StoreInvariant, PTL

\* Until then the row's content descends from the last creation, reset, correction or
\* deletion: no snapshot taken before one is written after it.
THEOREM ContentStaysCurrent == Spec => []ContentIsCurrent
<1>1. StoreInv => ContentIsCurrent  BY DEF StoreInv, Current, RowOK, ContentIsCurrent
<1> QED BY <1>1, StoreInvariant, PTL

\* No other step makes a turn fresh.
LEMMA OnlyTheCheckFreshens ==
  ASSUME TypeInv, [Next]_vars, NEW t \in Turn, actor[t].pc # "fresh", actor'[t].pc = "fresh"
  PROVE  CheckFreshOrRaise(t)
<1>t. t \in Actor /\ \A a \in Turn \cup Writer : a \in Actor  BY DEF Actor
<1>1. ASSUME NEW a \in Actor, Moves(a), a = t => actor'[a].pc \in {actor[a].pc, "failed", "queued", "working", "reaffirmed"}
      PROVE  FALSE
  BY <1>t, <1>1 DEF Moves
<1>2. ASSUME NEW a \in Actor, Select(a) PROVE FALSE  BY <1>1, <1>2, SelectMoves
<1>3. ASSUME NEW a \in Actor, NEW g \in Gen \ issued, Insert(a, g) PROVE FALSE  BY <1>1, <1>3, InsertMoves
<1>4. ASSUME NEW a \in Actor, NEW g \in Gen \ issued, Reset(a, g) PROVE FALSE  BY <1>1, <1>4, ResetMoves
<1>5. ASSUME NEW a \in Actor, NEW g \in Gen \ issued, NEW o \in actor[a].objs, InvalidateReading(a, o, g) PROVE FALSE
  BY <1>1, <1>5, InvalidateMoves
<1>6. ASSUME NEW u \in Turn, NEW o \in actor[u].objs, PinGeneration(u, o) PROVE FALSE  BY <1>t, <1>1, <1>6, PinMoves
<1>7. ASSUME NEW u \in Turn, NEW o \in actor[u].objs, SkipIfStaleJob(u, o) PROVE FALSE  BY <1>t, <1>1, <1>7, SkipMoves
<1>8. ASSUME NEW u \in Turn, NEW o \in actor[u].objs, GuardedSave(u, o) PROVE FALSE  BY <1>t, <1>1, <1>8, GuardedSaveMoves
<1>9. ASSUME NEW w \in Writer, NEW o \in actor[w].objs, Upsert(w, o) PROVE FALSE
  BY <1>t, <1>1, <1>9, UpsertMoves, ActorAssumption
<1>10. ASSUME NEW u \in Turn, SendReply(u) PROVE FALSE
  <2>1. actor' = [actor EXCEPT ![u].pc = "done"]  BY <1>10 DEF SendReply
  <2>2. Moves(u) /\ actor'[u].pc \in {actor[u].pc, "done"}  BY <1>t, <2>1, PcMoves DEF TypeInv
  <2> QED BY <1>t, <2>2 DEF Moves
<1>11. ASSUME NEW u \in Turn, u # t, CheckFreshOrRaise(u) PROVE FALSE
  <2>1. PICK pc : actor' = [actor EXCEPT ![u].pc = pc]  BY <1>11 DEF CheckFreshOrRaise
  <2>2. actor'[t] = actor[t]  BY <1>t, <1>11, <2>1 DEF TypeInv, TypeOK
  <2> QED BY <2>2
<1>12. ASSUME DeleteSender \/ AnonymizeSender \/ UNCHANGED vars PROVE FALSE
  BY <1>12 DEF DeleteSender, AnonymizeSender, vars
<1> QED BY <1>2, <1>3, <1>4, <1>5, <1>6, <1>7, <1>8, <1>9, <1>10, <1>11, <1>12
       DEF Next, DrawsGeneration, TurnStep, WriterStep

\* Until then a turn that passes the check before its reply has not been superseded.
THEOREM TurnsAreCurrent == Spec => OnlyCurrentTurnsPassTheCheck
<1>1. ASSUME StoreInv, [Next]_vars, NEW t \in Turn, ~bypassed, actor[t].pc # "fresh", actor'[t].pc = "fresh"
      PROVE  actor[t].guard \notin retired
  <2>1. TypeInv /\ RowOK  BY <1>1 DEF StoreInv, Current
  <2>2. t \in Actor  BY DEF Actor
  <2>3. CheckFreshOrRaise(t)
    BY <1>1, <2>1, <2>2, OnlyTheCheckFreshens
  <2>4. db.gen = actor[t].guard  BY <1>1, <2>1, <2>2, <2>3 DEF CheckFreshOrRaise, TypeInv, TypeOK, ActorState
  <2> QED BY <2>1, <2>4 DEF RowOK
<1>2. StoreInv /\ [Next]_vars => [\A t \in Turn : ~bypassed /\ actor[t].pc # "fresh" /\ actor'[t].pc = "fresh"
                                                 => actor[t].guard \notin retired]_vars
  BY <1>1
<1> QED BY <1>2, StoreInvariant, PTL DEF Spec, OnlyCurrentTurnsPassTheCheck

(* ---- the document in the row ------------------------------------------------ *)

\* All fields but the stages, on which nothing here depends.
DocOf(S) ==
  [gen : Nat, date : Dates \cup {None}, rest : BOOLEAN,
   chart : [date : Dates \cup {None}, loose : BOOLEAN], state : {"CHATTING", "INTAKE_PALM", "ANALYZING"},
   pending : Fields, awaiting : BOOLEAN, deferred : BOOLEAN, locked : BOOLEAN,
   overview : [gen : Nat, status : {"none", "pending", "completed"}], stages : S,
   progress : [gen : Nat, pages : {"none", "pending", "sent"}, stuck : {"none"} \cup Stage,
               date : Dates \cup {None}, loose : BOOLEAN],
   job : [gen : Nat, status : {"none", "pending", "running"}], jobLoose : BOOLEAN, others : BOOLEAN]

IsDoc(d) == \E S : d \in DocOf(S)

\* What Reading promises of a document, and what it needs for it.
Whole(d) ==
  /\ ~d.others /\ (d.pending # NoFields => d.awaiting)
  /\ d.chart.date # None => d.chart.date = d.date \/ d.chart.loose
  /\ d.progress.gen <= d.gen
  /\ d.progress.gen = d.gen => d.locked /\ (d.progress.date = d.date \/ d.progress.loose)
  /\ d.state = "ANALYZING" => d.job.gen = d.gen \/ d.jobLoose

Good(d) == IsDoc(d) /\ Whole(d)

LEMMA FreshIsGood == Good(FreshDoc)
<1>1. NoFields \in Fields  BY DEF NoFields, Fields, None
<1>2. FreshDoc \in DocOf({NoStages})  BY <1>1 DEF FreshDoc, DocOf, NoChart, NoJob, NoProgress, None
<1>3. Whole(FreshDoc)  BY DEF FreshDoc, Whole, NoChart, NoJob, NoProgress, NoFields, None
<1> QED BY <1>2, <1>3 DEF Good, IsDoc

\* Notes in the stages are not seen.
LEMMA StagesAreApart ==
  ASSUME NEW d, Good(d), NEW x PROVE Good([d EXCEPT !.stages = x])
<1>1. PICK S : d \in DocOf(S)  BY DEF Good, IsDoc
<1>2. PICK r : r = [d EXCEPT !.stages = x]  OBVIOUS
<1>3. r \in DocOf(S \cup {x})  BY <1>1, <1>2 DEF DocOf
<1>4. Whole(r)  BY <1>1, <1>2 DEF Good, Whole, DocOf
<1> QED BY <1>2, <1>3, <1>4 DEF Good, IsDoc
(* ---- what the jobs note ---------------------------------------------------- *)

LEMMA StagesStayApart ==
  ASSUME NEW d, Good(d), NEW g, NEW allowInit, NEW compile, NEW changes
  PROVE  Good(SetPipelineStages(d, g, allowInit, compile, changes))
<1>1. PICK r : r = ResolvePs(d, g, allowInit, compile)  OBVIOUS
<1>2. Good(r)  BY <1>1, StagesAreApart DEF ResolvePs, InitPipelineStages
<1>3. SetPipelineStages(d, g, allowInit, compile, changes) \in {r, [r EXCEPT !.stages = changes @@ r.stages]}
  BY <1>1 DEF SetPipelineStages
<1> QED BY <1>2, <1>3, StagesAreApart

Progress ==
  [gen : Nat, pages : {"none", "pending", "sent"}, stuck : {"none"} \cup Stage,
   date : Dates \cup {None}, loose : BOOLEAN]

LEMMA InitIsGood ==
  ASSUME NEW d, Good(d) PROVE Good(InitDeliveryProgress(d, d.gen))
<1>1. PICK S : d \in DocOf(S)  BY DEF Good, IsDoc
<1>2. PICK p : p = [NoProgress EXCEPT !.gen = d.gen, !.date = d.date]  OBVIOUS
<1>3. NoProgress \in Progress  BY DEF NoProgress, Progress, None
<1>4. p \in Progress /\ p.gen = d.gen /\ p.date = d.date  BY <1>1, <1>2, <1>3 DEF Progress, DocOf
<1>5. PICK r : r = [[d EXCEPT !.progress = p] EXCEPT !.locked = TRUE]  OBVIOUS
<1>6. r \in DocOf(S)  BY <1>1, <1>4, <1>5 DEF DocOf, Progress
<1>7. Whole(r)  BY <1>1, <1>4, <1>5 DEF Good, Whole, DocOf
<1>8. Good(r)  BY <1>6, <1>7 DEF Good, IsDoc
<1> QED BY <1>2, <1>5, <1>8, StagesStayApart DEF InitDeliveryProgress

LEMMA ResolvedIsGood == ASSUME NEW d, Good(d) PROVE Good(ResolveDp(d, d.gen))
BY InitIsGood DEF ResolveDp

\* What is noted of pages and of the reason of a stop is not seen either.
LEMMA PagesAreGood == ASSUME NEW d, Good(d), NEW status \in {"pending", "sent"}
                      PROVE  Good([d EXCEPT !.progress.pages = status])
<1>1. PICK S : d \in DocOf(S)  BY DEF Good, IsDoc
<1>2. PICK r : r = [d EXCEPT !.progress.pages = status]  OBVIOUS
<1>3. r \in DocOf(S)  BY <1>1, <1>2 DEF DocOf
<1>4. Whole(r)  BY <1>1, <1>2 DEF Good, Whole, DocOf
<1> QED BY <1>2, <1>3, <1>4 DEF Good, IsDoc

LEMMA StuckIsGood == ASSUME NEW d, Good(d), NEW stage \in {"none"} \cup Stage
                     PROVE  Good([d EXCEPT !.progress.stuck = stage])
<1>1. PICK S : d \in DocOf(S)  BY DEF Good, IsDoc
<1>2. PICK r : r = [d EXCEPT !.progress.stuck = stage]  OBVIOUS
<1>3. r \in DocOf(S)  BY <1>1, <1>2 DEF DocOf
<1>4. Whole(r)  BY <1>1, <1>2 DEF Good, Whole, DocOf
<1> QED BY <1>2, <1>3, <1>4 DEF Good, IsDoc

LEMMA NotesAreGood == ASSUME NEW d, Good(d), NEW r \in ProgressNotes(d, d.gen) PROVE Good(r)
<1>1. Good(MarkPipelineRenderOnlyStart(d, d.gen))
  BY StagesStayApart DEF MarkPipelineRenderOnlyStart
<1>2. Good(UpdateInterpretationText(d, d.gen))
  BY ResolvedIsGood, StagesStayApart DEF UpdateInterpretationText
<1>3. Good(MarkBundleDeliveryComplete(d, d.gen))
  BY StuckIsGood, StagesStayApart DEF MarkBundleDeliveryComplete
<1>4. ASSUME NEW status \in {"pending", "sent"} PROVE Good(SetPagesStatus(d, d.gen, status))
  <2>1. PICK q : q = ResolveDp(d, d.gen)  OBVIOUS
  <2>2. PICK paged : paged = [q EXCEPT !.progress.pages = status]  OBVIOUS
  <2>3. Good(paged) /\ Good(MarkPipelineRenderComplete(paged, d.gen))
    BY <2>1, <2>2, ResolvedIsGood, PagesAreGood, StagesStayApart DEF MarkPipelineRenderComplete
  <2>4. SetPagesStatus(d, d.gen, status) \in {d, paged, MarkPipelineRenderComplete(paged, d.gen)}
    BY <2>1, <2>2 DEF SetPagesStatus
  <2> QED BY <2>3, <2>4
<1>5. ASSUME NEW stage \in Stage PROVE Good(SetStuckReason(d, d.gen, stage))
  BY StuckIsGood, StagesStayApart DEF SetStuckReason
<1> QED BY <1>1, <1>2, <1>3, <1>4, <1>5, InitIsGood DEF ProgressNotes

\* What is noted of the job of the document's generation.
LEMMA JobIsGood ==
  ASSUME NEW d, Good(d), NEW status \in {"none", "pending", "running"},
         NEW r, r = [d EXCEPT !.job = [gen |-> d.gen, status |-> status]]
  PROVE  Good(r)
<1>1. PICK S : d \in DocOf(S)  BY DEF Good, IsDoc
<1>2. r \in DocOf(S)  BY <1>1 DEF DocOf
<1>3. Whole(r)  BY <1>1 DEF Good, Whole, DocOf
<1> QED BY <1>2, <1>3 DEF Good, IsDoc

LEMMA FinishedIsGood == ASSUME NEW d, Good(d) PROVE Good(FinishJob(d))
<1>1. PICK S : d \in DocOf(S)  BY DEF Good, IsDoc
<1>2. PICK r : r = [[d EXCEPT !.job = NoJob] EXCEPT !.state = "CHATTING"]  OBVIOUS
<1>3. r \in DocOf(S)  BY <1>1, <1>2 DEF DocOf, NoJob, None
<1>4. Whole(r)  BY <1>1, <1>2 DEF Good, Whole, DocOf
<1> QED BY <1>2, <1>3, <1>4 DEF Good, IsDoc, FinishJob, ClearPendingJob

LEMMA RunningIsGood == ASSUME NEW d, Good(d), d.job.gen = d.gen PROVE Good([d EXCEPT !.job.status = "running"])
<1>1. PICK S : d \in DocOf(S)  BY DEF Good, IsDoc
<1>2. PICK r : r = [d EXCEPT !.job.status = "running"]  OBVIOUS
<1>3. r \in DocOf(S)  BY <1>1, <1>2 DEF DocOf
<1>4. Whole(r)  BY <1>1, <1>2 DEF Good, Whole, DocOf
<1> QED BY <1>2, <1>3, <1>4 DEF Good, IsDoc

LEMMA JobNotesAreGood == ASSUME NEW d, Good(d), NEW r \in JobNotes(d, d.gen) PROVE Good(r)
<1>1. Good(UpdatePendingJobStage(d, d.gen))  BY JobIsGood DEF UpdatePendingJobStage
<1>2. Good(MarkJobRunning(d, d.gen))  BY RunningIsGood DEF MarkJobRunning
<1> QED BY <1>1, <1>2, FinishedIsGood DEF JobNotes
(* ---- the dialogue -------------------------------------------------------- *)

LEMMA MessageTypes ==
  ASSUME NEW m \in Messages, NEW d
  PROVE  Filtered(d, m) \in Fields /\ Filtered(d, m).date = m.fields.date
<1>1. m.fields \in Fields  BY DEF Messages
<1>2. (m.fields.rest /\ AllowGenderMerge(d, m)) \in BOOLEAN  OBVIOUS
<1> QED BY <1>1, <1>2 DEF Filtered, Fields

\* A new generation: nothing is delivered in it yet.
LEMMA RenewedIsGood ==
  ASSUME NEW d, Good(d), NEW r, IsDoc(r), r.gen = d.gen + 1, r.progress = d.progress,
         r.chart.date = None \/ r.chart.date = r.date \/ r.chart.loose,
         r.state # "ANALYZING" \/ r.jobLoose, ~r.others, r.pending # NoFields => r.awaiting
  PROVE  Good(r)
<1>1. PICK S : d \in DocOf(S)  BY DEF Good, IsDoc
<1>2. d.progress.gen <= d.gen /\ d.gen \in Nat /\ d.progress.gen \in Nat
  BY <1>1 DEF Good, Whole, DocOf
<1>3. r.progress.gen # r.gen /\ r.progress.gen <= r.gen  BY <1>2
<1> QED BY <1>3 DEF Good, Whole

LEMMA InvalidatedFields ==
  ASSUME NEW S, NEW d \in DocOf(S), NEW v, v = InvalidateCurrentReading(d)
  PROVE  /\ v \in DocOf(S) /\ v.gen = d.gen + 1 /\ v.chart = NoChart /\ v.state = "CHATTING"
         /\ v.progress = d.progress /\ v.pending = d.pending /\ v.awaiting = d.awaiting
<1>1. PICK b : b = [d EXCEPT !.gen = d.gen + 1]  OBVIOUS
<1>2. b \in DocOf(S)  BY <1>1 DEF DocOf
<1>3. v = [[[[b EXCEPT !.chart = NoChart] EXCEPT !.state = "CHATTING"] EXCEPT !.deferred = FALSE] EXCEPT !.locked = FALSE]
  BY <1>1 DEF InvalidateCurrentReading, BumpGeneration, DocOf
<1>4. NoChart \in [date : Dates \cup {None}, loose : BOOLEAN]  BY DEF NoChart
<1>5. v \in DocOf(S)  BY <1>2, <1>3, <1>4, ZenonT(60) DEF DocOf
<1> QED BY <1>1, <1>2, <1>3, <1>5 DEF DocOf

\* What an update by the customer's own data leaves.
Updated(d, fields, v) ==
  /\ v.gen = d.gen /\ v.chart = d.chart /\ v.state = d.state /\ v.locked = d.locked
  /\ v.progress = d.progress /\ v.pending = d.pending /\ v.awaiting = d.awaiting
  /\ v.job = d.job /\ v.jobLoose = d.jobLoose
  /\ v.others = FALSE /\ v.date = (IF fields.date # None THEN fields.date ELSE d.date)

LEMMA UpdateFields ==
  ASSUME NEW S, NEW d \in DocOf(S), NEW fields \in Fields, NEW v, v = Update(d, fields, FALSE)
  PROVE  v \in DocOf(S) /\ Updated(d, fields, v)
<1>1. PICK date \in Dates \cup {None} : date = IF fields.date # None THEN fields.date ELSE d.date
  BY DEF DocOf, Fields
<1>2. PICK rest \in BOOLEAN : rest = (d.rest \/ fields.rest)  OBVIOUS
<1>3. v = [[[d EXCEPT !.date = date] EXCEPT !.rest = rest] EXCEPT !.others = FALSE]
  BY <1>1, <1>2 DEF Update, DocOf
<1> QED BY <1>1, <1>2, <1>3 DEF DocOf, Updated

LEMMA CorrectionIsGood ==
  ASSUME NEW d, Good(d), NEW fields \in Fields
  PROVE  Good(ApplySelfBirthCorrection(d, fields, FALSE))
<1>1. PICK S : d \in DocOf(S)  BY DEF Good, IsDoc
<1>2. PICK v : v = InvalidateCurrentReading(d)  OBVIOUS
<1>3. PICK r : r = Update(v, fields, FALSE)  OBVIOUS
<1>a. /\ v \in DocOf(S) /\ v.gen = d.gen + 1 /\ v.chart = NoChart /\ v.state = "CHATTING"
      /\ v.progress = d.progress /\ v.pending = d.pending /\ v.awaiting = d.awaiting
  BY <1>1, <1>2, InvalidatedFields
<1>b. NoChart.date = None  BY DEF NoChart
<1>4. r \in DocOf(S) /\ r.gen = d.gen + 1 /\ r.progress = d.progress /\ r.chart.date = None
      /\ r.state = "CHATTING" /\ r.others = FALSE /\ r.pending = d.pending /\ r.awaiting = d.awaiting
  <2>1. r \in DocOf(S) /\ Updated(v, fields, r)  BY <1>3, <1>a, UpdateFields, Zenon
  <2> QED BY <1>a, <1>b, <2>1 DEF Updated
<1>5. d.pending # NoFields => d.awaiting  BY DEF Good, Whole
<1>6. Good(r)  BY <1>4, <1>5, RenewedIsGood DEF IsDoc
<1> QED BY <1>2, <1>3, <1>6 DEF ApplySelfBirthCorrection

\* A merge beside a chart marks it, and in a delivery of an unheld date as well.
LEMMA MergeInPlaceIsGood ==
  ASSUME NEW d, Good(d), NEW m \in Messages, m.subject # "third_party",
         HasChart(d) => ~m.signal,
         ~BirthDateChangeBlocked(d, Filtered(d, m))
  PROVE  Good(MergeInPlace(d, m))
<1>1. PICK S : d \in DocOf(S)  BY DEF Good, IsDoc
<1>2. PICK v : v = Update(d, Filtered(d, m), FALSE)  OBVIOUS
<1>3. PICK c \in BOOLEAN : c = (d.chart.loose \/ (HasChart(d) /\ ~m.signal))  OBVIOUS
<1>4. PICK l \in BOOLEAN : l = (d.progress.loose \/ (d.progress.gen = d.gen /\ ~BirthDateHeld(d)))  OBVIOUS
<1>5. PICK r : r = [[v EXCEPT !.chart.loose = c] EXCEPT !.progress.loose = l]  OBVIOUS
<1>6. MergeInPlace(d, m) = r
  <2>1. (m.subject = "third_party") = FALSE  OBVIOUS
  <2>2. v.chart = d.chart /\ v.progress = d.progress /\ v \in DocOf(S)
    <3>1. Filtered(d, m) \in Fields  BY MessageTypes
    <3>2. v \in DocOf(S) /\ Updated(d, Filtered(d, m), v)  BY <1>1, <1>2, <3>1, UpdateFields, Zenon
    <3> QED BY <3>2 DEF Updated
  <2> QED BY <1>2, <1>3, <1>4, <1>5, <2>1, <2>2 DEF MergeInPlace, DocOf
<1>7. v \in DocOf(S) /\ v.gen = d.gen /\ v.chart = d.chart /\ v.state = d.state /\ v.locked = d.locked
      /\ v.progress = d.progress /\ v.pending = d.pending /\ v.awaiting = d.awaiting
      /\ v.job = d.job /\ v.jobLoose = d.jobLoose /\ v.others = FALSE
      /\ v.date = (IF Filtered(d, m).date # None THEN Filtered(d, m).date ELSE d.date)
  <2>1. Filtered(d, m) \in Fields  BY MessageTypes
  <2>2. v \in DocOf(S) /\ Updated(d, Filtered(d, m), v)  BY <1>1, <1>2, <2>1, UpdateFields, Zenon
  <2> QED BY <2>2 DEF Updated
<1>8. /\ r \in DocOf(S) /\ r.gen = v.gen /\ r.state = v.state /\ r.locked = v.locked /\ r.date = v.date
      /\ r.pending = v.pending /\ r.awaiting = v.awaiting /\ r.job = v.job /\ r.jobLoose = v.jobLoose
      /\ r.others = v.others /\ r.chart.date = v.chart.date /\ r.chart.loose = c
      /\ r.progress.gen = v.progress.gen /\ r.progress.date = v.progress.date /\ r.progress.loose = l
  BY <1>5, <1>7, ZenonT(60) DEF DocOf
<1>9. d.chart.date # None => r.chart.date = r.date \/ r.chart.loose
  BY <1>3, <1>7, <1>8 DEF HasChart
<1>10. d.progress.gen = d.gen => d.locked /\ (r.progress.date = r.date \/ r.progress.loose)
  <2>1. SUFFICES ASSUME d.progress.gen = d.gen PROVE d.locked /\ (r.progress.date = r.date \/ r.progress.loose)
    OBVIOUS
  <2>2. CASE ~BirthDateHeld(d)
    <3>1. l = TRUE  BY <1>4, <2>1, <2>2
    <3> QED BY <1>8, <2>1, <3>1 DEF Good, Whole
  <2>3. CASE BirthDateHeld(d)
    <3>1. v.date = d.date  BY <1>7, <2>3 DEF BirthDateChangeBlocked
    <3>2. d.progress.loose => l  BY <1>4
    <3> QED BY <1>7, <1>8, <2>1, <3>1, <3>2 DEF Good, Whole
  <2> QED BY <2>2, <2>3
<1>11. Whole(r)  BY <1>7, <1>8, <1>9, <1>10 DEF Good, Whole
<1> QED BY <1>6, <1>8, <1>11 DEF Good, IsDoc

LEMMA AskedIsGood ==
  ASSUME NEW d, Good(d), NEW fields \in Fields
  PROVE  Good([d EXCEPT !.pending = fields, !.awaiting = TRUE])
<1>1. PICK S : d \in DocOf(S)  BY DEF Good, IsDoc
<1>2. PICK r : r = [[d EXCEPT !.pending = fields] EXCEPT !.awaiting = TRUE]  OBVIOUS
<1>3. r \in DocOf(S)  BY <1>1, <1>2 DEF DocOf
<1>4. Whole(r)  BY <1>1, <1>2 DEF Good, Whole, DocOf
<1> QED BY <1>2, <1>3, <1>4 DEF Good, IsDoc

LEMMA MessageIsGood ==
  ASSUME NEW d, Good(d), NEW m \in Messages
  PROVE  Good(ApplyBirthExtraction(d, m))
<1>1. Filtered(d, m) \in Fields  BY MessageTypes
<1>2. CASE Ignored(d, m)  BY <1>2 DEF ApplyBirthExtraction
<1>3. CASE ~Ignored(d, m) /\ Asked(d, m)
  BY <1>1, <1>3, AskedIsGood DEF ApplyBirthExtraction
<1>4. CASE ~Ignored(d, m) /\ ~Asked(d, m) /\ BirthDateChangeBlocked(d, Filtered(d, m))
  BY <1>4 DEF ApplyBirthExtraction
<1>5. CASE ~Ignored(d, m) /\ ~Asked(d, m) /\ ~BirthDateChangeBlocked(d, Filtered(d, m))
  <2>1. m.subject # "third_party"  BY <1>5 DEF Ignored, Asked
  <2>2. ApplyBirthExtraction(d, m) = Merge(d, m)  BY <1>5 DEF ApplyBirthExtraction
  <2>3. CASE m.selfEdit /\ HasChart(d)
    <3>1. (m.subject = "third_party") = FALSE  BY <2>1
    <3> QED BY <1>1, <2>2, <2>3, <3>1, CorrectionIsGood DEF Merge
  <2>4. CASE ~(m.selfEdit /\ HasChart(d))
    <3>1. HasChart(d) => ~m.signal  BY <1>5, <2>4 DEF Asked
    <3> QED BY <1>5, <2>1, <2>2, <2>4, <3>1, MergeInPlaceIsGood DEF Merge
  <2> QED BY <2>3, <2>4
<1> QED BY <1>2, <1>3, <1>4, <1>5
(* ---- buttons, the chart and the bundle -------------------------------------- *)

LEMMA PromotedIsGood == ASSUME NEW d, Good(d) PROVE Good(PromotePendingProfile(d))
<1>1. PICK S : d \in DocOf(S)  BY DEF Good, IsDoc
<1>2. PICK v : v = InvalidateCurrentReading(d)  OBVIOUS
<1>3. /\ v \in DocOf(S) /\ v.gen = d.gen + 1 /\ v.chart = NoChart /\ v.state = "CHATTING"
      /\ v.progress = d.progress
  BY <1>1, <1>2, InvalidatedFields
<1>4. d.pending.date \in Dates \cup {None} /\ d.pending.rest \in BOOLEAN  BY <1>1 DEF DocOf, Fields
<1>5. NoFields \in Fields  BY DEF NoFields, Fields
<1>6. PICK r : r = [[[[[v EXCEPT !.date = d.pending.date] EXCEPT !.rest = d.pending.rest]
                       EXCEPT !.pending = NoFields] EXCEPT !.awaiting = FALSE] EXCEPT !.others = FALSE]
  OBVIOUS
<1>7. r \in DocOf(S)  BY <1>3, <1>4, <1>5, <1>6 DEF DocOf
<1>8. /\ r.gen = d.gen + 1 /\ r.progress = d.progress /\ r.chart = NoChart /\ r.state = "CHATTING"
      /\ r.pending = NoFields /\ r.others = FALSE
  BY <1>3, <1>6 DEF DocOf
<1>9. r.chart.date = None  BY <1>8 DEF NoChart
<1>10. Good(r)  BY <1>7, <1>8, <1>9, RenewedIsGood DEF IsDoc
<1> QED BY <1>2, <1>6, <1>10 DEF PromotePendingProfile

LEMMA DeclinedIsGood == ASSUME NEW d, Good(d) PROVE Good(DeclinePendingProfile(d))
<1>1. PICK S : d \in DocOf(S)  BY DEF Good, IsDoc
<1>2. PICK r : r = [[d EXCEPT !.pending = NoFields] EXCEPT !.awaiting = FALSE]  OBVIOUS
<1>3. NoFields \in Fields  BY DEF NoFields, Fields
<1>4. r \in DocOf(S)  BY <1>1, <1>2, <1>3 DEF DocOf
<1>5. Whole(r)  BY <1>1, <1>2 DEF Good, Whole, DocOf
<1> QED BY <1>2, <1>4, <1>5 DEF Good, IsDoc, DeclinePendingProfile

\* A button that clears the birth data, in the same generation or in a new one.
Cleared(d, r) ==
  /\ r.gen = d.gen /\ r.others = FALSE
  /\ r.pending = d.pending /\ r.awaiting = d.awaiting /\ r.locked = d.locked
  /\ r.state = d.state /\ r.job = d.job /\ r.jobLoose = d.jobLoose
  /\ r.chart.date # None => r.chart.loose
  /\ r.progress.gen = d.progress.gen /\ (r.progress.gen = r.gen => r.progress.loose)

LEMMA ClearedFields ==
  ASSUME NEW S, NEW d \in DocOf(S), NEW r, r = ClearedBirth(d)
  PROVE  r \in DocOf(S) /\ Cleared(d, r)
<1>1. PICK c \in BOOLEAN : c = HasChart(d)  BY DEF HasChart
<1>2. PICK l \in BOOLEAN : l = (d.progress.gen = d.gen)  OBVIOUS
<1>3. r = [[[[[d EXCEPT !.date = None] EXCEPT !.rest = FALSE] EXCEPT !.others = FALSE]
             EXCEPT !.chart.loose = c] EXCEPT !.progress.loose = l]
  BY <1>1, <1>2 DEF ClearedBirth, DocOf
<1>4. r \in DocOf(S)
  <2>1. PICK q : q = [[[d EXCEPT !.date = None] EXCEPT !.rest = FALSE] EXCEPT !.others = FALSE]  OBVIOUS
  <2>2. q \in DocOf(S)  BY <2>1 DEF DocOf
  <2>3. PICK w : w = [q EXCEPT !.chart.loose = c]  OBVIOUS
  <2>4. w \in DocOf(S)  BY <2>2, <2>3 DEF DocOf
  <2>5. r = [w EXCEPT !.progress.loose = l]  BY <1>3, <2>1, <2>3
  <2> QED BY <2>4, <2>5 DEF DocOf
<1>5. r.chart.date = d.chart.date /\ r.chart.loose = c  BY <1>3 DEF DocOf
<1>6. r.progress.gen = d.progress.gen /\ r.progress.loose = l  BY <1>3 DEF DocOf
<1>7. /\ r.gen = d.gen /\ r.others = FALSE
      /\ r.pending = d.pending /\ r.awaiting = d.awaiting /\ r.locked = d.locked
      /\ r.state = d.state /\ r.job = d.job /\ r.jobLoose = d.jobLoose
  BY <1>3 DEF DocOf
<1>8. r.chart.date # None => r.chart.loose  BY <1>1, <1>5 DEF HasChart
<1>9. r.progress.gen = r.gen => r.progress.loose  BY <1>2, <1>6, <1>7
<1> QED BY <1>4, <1>6, <1>7, <1>8, <1>9 DEF Cleared

LEMMA EditsAreGood ==
  ASSUME NEW d, Good(d) PROVE Good(ConfirmEditButton(d)) /\ Good(IntakeEditButton(d))
<1>1. PICK S : d \in DocOf(S)  BY DEF Good, IsDoc
<1>2. Good(ConfirmEditButton(d))
  <2>1. PICK r : r = ClearedBirth(d)  OBVIOUS
  <2>2. r \in DocOf(S) /\ Cleared(d, r)  BY <1>1, <2>1, ClearedFields, Zenon
  <2>3. Good(r)  BY <2>2 DEF Good, IsDoc, Whole, Cleared
  <2> QED BY <2>1, <2>3 DEF ConfirmEditButton
<1>3. Good(IntakeEditButton(d))
  <2>1. PICK b : b = [d EXCEPT !.gen = d.gen + 1]  OBVIOUS
  <2>2. /\ b \in DocOf(S) /\ b.gen = d.gen + 1 /\ b.progress = d.progress
        /\ b.pending = d.pending /\ b.awaiting = d.awaiting
    BY <1>1, <2>1 DEF DocOf
  <2>3. PICK c : c = ClearedBirth(b)  OBVIOUS
  <2>4. PICK r : r = [c EXCEPT !.jobLoose = TRUE]  OBVIOUS
  <2>5. /\ c \in DocOf(S) /\ c.gen = d.gen + 1 /\ c.progress.gen = d.progress.gen /\ c.others = FALSE
        /\ c.pending = d.pending /\ c.awaiting = d.awaiting /\ (c.chart.date # None => c.chart.loose)
    <3>1. c \in DocOf(S) /\ Cleared(b, c)  BY <2>2, <2>3, ClearedFields, Zenon
    <3> QED BY <2>2, <3>1 DEF Cleared
  <2>6. r \in DocOf(S) /\ r.jobLoose = TRUE /\ r.gen = c.gen /\ r.progress = c.progress
        /\ r.others = c.others /\ r.pending = c.pending /\ r.awaiting = c.awaiting /\ r.chart = c.chart
    BY <2>4, <2>5 DEF DocOf
  <2>7. d.progress.gen <= d.gen /\ d.gen \in Nat /\ d.progress.gen \in Nat
        /\ (d.pending # NoFields => d.awaiting)
    BY <1>1 DEF Good, Whole, DocOf
  <2>8. r.progress.gen # r.gen /\ r.progress.gen <= r.gen  BY <2>5, <2>6, <2>7
  <2>9. Good(r)  BY <2>5, <2>6, <2>7, <2>8 DEF Good, IsDoc, Whole
  <2> QED BY <2>1, <2>3, <2>4, <2>9 DEF IntakeEditButton, BumpGeneration
<1> QED BY <1>2, <1>3
LEMMA QuickReplyIsGood == ASSUME NEW d, Good(d) PROVE Good(QuickReply(d))
<1>1. PICK S : d \in DocOf(S)  BY DEF Good, IsDoc
<1>2. PICK r : r = [d EXCEPT !.rest = TRUE]  OBVIOUS
<1>3. r \in DocOf(S)  BY <1>1, <1>2 DEF DocOf
<1>4. Whole(r)  BY <1>1, <1>2 DEF Good, Whole, DocOf
<1> QED BY <1>2, <1>3, <1>4 DEF Good, IsDoc, QuickReply

LEMMA ChartIsGood == ASSUME NEW d, Good(d) PROVE Good(MakeChart(d))
<1>1. PICK S : d \in DocOf(S)  BY DEF Good, IsDoc
<1>2. PICK c \in [date : Dates \cup {None}, loose : BOOLEAN] : c = [date |-> d.date, loose |-> FALSE]
  BY <1>1 DEF DocOf
<1>3. PICK r : r = [d EXCEPT !.chart = c]  OBVIOUS
<1>4. r \in DocOf(S)  BY <1>1, <1>2, <1>3 DEF DocOf
<1>5. Whole(r)  BY <1>1, <1>2, <1>3 DEF Good, Whole, DocOf
<1> QED BY <1>2, <1>3, <1>4, <1>5 DEF Good, IsDoc, MakeChart

LEMMA DeferredIsGood == ASSUME NEW d, Good(d), NEW x \in BOOLEAN PROVE Good([d EXCEPT !.deferred = x])
<1>1. PICK S : d \in DocOf(S)  BY DEF Good, IsDoc
<1>2. PICK r : r = [d EXCEPT !.deferred = x]  OBVIOUS
<1>3. r \in DocOf(S)  BY <1>1, <1>2 DEF DocOf
<1>4. Whole(r)  BY <1>1, <1>2 DEF Good, Whole, DocOf
<1> QED BY <1>2, <1>3, <1>4 DEF Good, IsDoc

LEMMA OverviewIsGood ==
  ASSUME NEW d, Good(d), NEW g \in Nat, NEW status \in {"pending", "completed"}
  PROVE  Good([d EXCEPT !.overview = [gen |-> g, status |-> status]])
<1>1. PICK S : d \in DocOf(S)  BY DEF Good, IsDoc
<1>2. PICK r : r = [d EXCEPT !.overview = [gen |-> g, status |-> status]]  OBVIOUS
<1>3. r \in DocOf(S)  BY <1>1, <1>2 DEF DocOf
<1>4. Whole(r)  BY <1>1, <1>2 DEF Good, Whole, DocOf
<1> QED BY <1>2, <1>3, <1>4 DEF Good, IsDoc

LEMMA CalmIsGood == ASSUME NEW d, Good(d), NEW state \in {"CHATTING", "INTAKE_PALM"} PROVE Good([d EXCEPT !.state = state])
<1>1. PICK S : d \in DocOf(S)  BY DEF Good, IsDoc
<1>2. PICK r : r = [d EXCEPT !.state = state]  OBVIOUS
<1>3. r \in DocOf(S)  BY <1>1, <1>2 DEF DocOf
<1>4. Whole(r)  BY <1>1, <1>2 DEF Good, Whole, DocOf
<1> QED BY <1>2, <1>3, <1>4 DEF Good, IsDoc

\* A session that waits: for the job of its generation, or knowingly for none.
LEMMA AnalyzingIsGood ==
  ASSUME NEW d, Good(d)
  PROVE  Good([SetPendingJob(d, d.gen) EXCEPT !.state = "ANALYZING", !.jobLoose = FALSE])
<1>1. PICK q : q = [d EXCEPT !.job = [gen |-> d.gen, status |-> "pending"]]  OBVIOUS
<1>2. Good(q)  BY <1>1, JobIsGood
<1>3. PICK S : d \in DocOf(S) /\ q \in DocOf(S)
  <2>1. PICK S : d \in DocOf(S)  BY DEF Good, IsDoc
  <2> QED BY <1>1, <2>1 DEF DocOf
<1>4. q.job.gen = q.gen  BY <1>1, <1>3 DEF DocOf
<1>5. PICK r : r = [[q EXCEPT !.state = "ANALYZING"] EXCEPT !.jobLoose = FALSE]  OBVIOUS
<1>6. r \in DocOf(S)  BY <1>3, <1>5 DEF DocOf
<1>7. Whole(r)  BY <1>2, <1>3, <1>4, <1>5 DEF Good, Whole, DocOf
<1>8. Good(r)  BY <1>6, <1>7 DEF Good, IsDoc
<1> QED BY <1>1, <1>5, <1>8 DEF SetPendingJob

LEMMA LooseIsGood ==
  ASSUME NEW d, Good(d), NEW job \in [gen : Nat, status : {"none", "pending", "running"}],
         NEW r, r = [d EXCEPT !.job = job, !.jobLoose = TRUE]
  PROVE  Good(r)
<1>1. PICK S : d \in DocOf(S)  BY DEF Good, IsDoc
<1>2. r \in DocOf(S)  BY <1>1 DEF DocOf
<1>3. Whole(r)  BY <1>1 DEF Good, Whole, DocOf
<1> QED BY <1>2, <1>3 DEF Good, IsDoc

LEMMA CombinedIsGood ==
  ASSUME NEW d, Good(d), NEW sources \in Sources,
         NEW answer \in {"new", "already_running", "retry_pending", "completed", "dead", "enqueue_error"}
  PROVE  Good(TryEnqueueCombinedAnalysis(d, sources, answer))
<1>1. Good([d EXCEPT !.state = "CHATTING"]) /\ Good([d EXCEPT !.state = "INTAKE_PALM"])
  BY CalmIsGood
<1>2. PICK c : c = [ClearPendingJob(d) EXCEPT !.jobLoose = TRUE]  OBVIOUS
<1>3. Good(c)
  <2>1. NoJob \in [gen : Nat, status : {"none", "pending", "running"}]  BY DEF NoJob, None
  <2>2. c = [d EXCEPT !.job = NoJob, !.jobLoose = TRUE]  BY <1>2 DEF ClearPendingJob
  <2> QED BY <2>1, <2>2, LooseIsGood
<1>4. TryEnqueueCombinedAnalysis(d, sources, answer) \in
        {[d EXCEPT !.state = "CHATTING"], [d EXCEPT !.state = "INTAKE_PALM"], d, c,
         [SetPendingJob(d, d.gen) EXCEPT !.state = "ANALYZING", !.jobLoose = FALSE]}
  BY <1>2 DEF TryEnqueueCombinedAnalysis, Sources
<1> QED BY <1>1, <1>3, <1>4, AnalyzingIsGood

LEMMA RecoveredIsGood ==
  ASSUME NEW d, Good(d), NEW enqueued \in BOOLEAN
  PROVE  Good(AdminRecoveryBundle(d, enqueued))
<1>1. PICK S : d \in DocOf(S)  BY DEF Good, IsDoc
<1>2. PICK g \in Nat : g = RecoveredGen(d)  BY <1>1 DEF RecoveredGen, DocOf
<1>3. PICK a : a = [d EXCEPT !.overview = [gen |-> g, status |-> "pending"]]  OBVIOUS
<1>4. Good(a) /\ a \in DocOf(S) /\ a.gen = d.gen /\ a.jobLoose = d.jobLoose
  <2>1. Good(a)  BY <1>2, <1>3, OverviewIsGood
  <2> QED BY <1>1, <1>2, <1>3, <2>1 DEF DocOf
<1>5. PICK job : job = [gen |-> g, status |-> "pending"]  OBVIOUS
<1>6. PICK l \in BOOLEAN : l = (a.jobLoose \/ g # d.gen)  OBVIOUS
<1>7. PICK w : w = [[a EXCEPT !.job = job] EXCEPT !.jobLoose = l]  OBVIOUS
<1>8. Good(w)
  <2>1. w \in DocOf(S)  BY <1>2, <1>4, <1>5, <1>7 DEF DocOf
  <2>2. job.gen = g  BY <1>5
  <2>3. w.job.gen = w.gen \/ w.jobLoose  BY <1>2, <1>4, <1>6, <1>7, <2>2 DEF DocOf
  <2>4. Whole(w)  BY <1>4, <1>7, <2>3 DEF Good, Whole, DocOf
  <2> QED BY <2>1, <2>4 DEF Good, IsDoc
<1>9. AdminRecoveryBundle(d, enqueued)
        = SetPipelineStages(IF enqueued THEN w ELSE a, g, TRUE, "skip", [bundle |-> "wait"])
  <2>1. w = [SetPendingJob(a, g) EXCEPT !.jobLoose = @ \/ g # d.gen]
    BY <1>4, <1>5, <1>6, <1>7 DEF SetPendingJob, DocOf
  <2> QED BY <1>2, <1>3, <2>1 DEF AdminRecoveryBundle
<1>10. Good(IF enqueued THEN w ELSE a)  BY <1>4, <1>8
<1> QED BY <1>9, <1>10, StagesStayApart

(* ---- the theorems ----------------------------------------------------------------- *)

LEMMA NextIsGood == Good(doc) /\ [ReadingNext]_doc => Good(doc')
<1> SUFFICES ASSUME Good(doc), [ReadingNext]_doc PROVE Good(doc')
  OBVIOUS
<1>1. CASE Message  BY <1>1, MessageIsGood DEF Message
<1>2. CASE ProfileSwitchButton  BY <1>2, PromotedIsGood, DeclinedIsGood DEF ProfileSwitchButton
<1>3. CASE BirthButton  BY <1>3, EditsAreGood, QuickReplyIsGood DEF BirthButton
<1>4. CASE Chart  BY <1>4, ChartIsGood DEF Chart
<1>5. CASE Defer
  <2>1. PICK x \in BOOLEAN : x = ~doc.deferred  OBVIOUS
  <2>2. doc' = [doc EXCEPT !.deferred = x]  BY <1>5, <2>1 DEF Defer
  <2> QED BY <2>2, DeferredIsGood
<1>6. CASE Overview
  <2>1. doc.gen \in Nat  BY DEF Good, IsDoc, DocOf
  <2>2. PICK status \in {"pending", "completed"} : doc' = [doc EXCEPT !.overview = [gen |-> doc.gen, status |-> status]]
    BY <1>6 DEF Overview
  <2>3. Good([doc EXCEPT !.overview = [gen |-> doc.gen, status |-> status]])
    BY <2>1, OverviewIsGood
  <2> QED BY <2>2, <2>3
<1>7. CASE Work  BY <1>7, NotesAreGood DEF Work
<1>8. CASE WorkOnJob  BY <1>8, JobNotesAreGood DEF WorkOnJob
<1>9. CASE Combined  BY <1>9, CombinedIsGood DEF Combined
<1>10. CASE Recovery  BY <1>10, RecoveredIsGood DEF Recovery
<1>11. CASE UNCHANGED doc  BY <1>11
<1> QED BY <1>1, <1>2, <1>3, <1>4, <1>5, <1>6, <1>7, <1>8, <1>9, <1>10, <1>11 DEF ReadingNext

DocIsGood == Good(doc)

LEMMA DocStaysGood == ReadingSpec => []DocIsGood
<1>1. ReadingInit => DocIsGood  BY FreshIsGood DEF ReadingInit, DocIsGood
<1>2. DocIsGood /\ [ReadingNext]_doc => DocIsGood'
  <2> SUFFICES ASSUME DocIsGood, [ReadingNext]_doc PROVE Good(doc')  BY DEF DocIsGood
  <2> QED BY NextIsGood DEF DocIsGood
<1> QED BY <1>1, <1>2, PTL DEF ReadingSpec

(* Through any messages, buttons and corrections about any dates: nobody        *)
(* else's birth data are the session's before the switch was accepted.          *)
THEOREM OthersAreKeptOut == ReadingSpec => []OthersStayOut
<1>1. DocIsGood => OthersStayOut  BY DEF DocIsGood, Good, Whole, OthersStayOut
<1> QED BY <1>1, DocStaysGood, PTL

(* The chart is of the session's date, or known to be left behind.              *)
THEOREM ChartStaysOfTheDate == ReadingSpec => []ChartIsOfTheDate
<1>1. DocIsGood => ChartIsOfTheDate  BY DEF DocIsGood, Good, Whole, ChartIsOfTheDate, HasChart
<1> QED BY <1>1, DocStaysGood, PTL

(* The delivery is of the date it began with, which is locked, whatever is      *)
(* deferred, superseded, stuck or recovered on the way.                         *)
THEOREM DeliveryStaysOfTheDate == ReadingSpec => []DeliveryIsOfTheDate
<1>1. DocIsGood => DeliveryIsOfTheDate  BY DEF DocIsGood, Good, Whole, DeliveryIsOfTheDate
<1> QED BY <1>1, DocStaysGood, PTL

(* A session that waits for an analysis has a job of its generation, or one of  *)
(* the named ways took it away.                                                 *)
THEOREM WaitingHasAJob == ReadingSpec => []AnalyzingHasAJob
<1>1. DocIsGood => AnalyzingHasAJob  BY DEF DocIsGood, Good, Whole, AnalyzingHasAJob
<1> QED BY <1>1, DocStaysGood, PTL
=============================================================================

------------------------- MODULE PrivateFillsProofs -------------------------
(* Theorems about the way of an execution into the books (PrivateFills), for *)
(* any set of orders, any size and any number of rows under way.             *)
EXTENDS PrivateFills, SequenceTheorems, TLAPS

Rows == [order : Orders, status : Statuses, filled : Nat]
Records == [Orders -> [status : Statuses \cup {"NONE"}, filled : Nat]]

FillsTypeOK ==
    /\ truth \in [Orders -> [status : Statuses \ {"UNKNOWN"}, filled : Nat]]
    /\ queue \in Seq(Rows) /\ up \in BOOLEAN
    /\ rec \in Records
    /\ handed \in [Orders -> Nat] /\ rest \in [Orders -> Int]
    /\ missed \in BOOLEAN /\ alarm \in BOOLEAN

\* No row tells of more than was executed.
RowsAreTrue(rows) == \A i \in DOMAIN rows : rows[i].filled <= truth[rows[i].order].filled

\* With the fills that a message has made so far, the books have at most what
\* the record has, and the record at most what was executed.
BooksBehind(s) ==
    \A o \in Orders : /\ handed[o] + rest[o] + s.fills[o] <= s.rec[o].filled
                      /\ s.rec[o].filled <= truth[o].filled

\* While there is no alarm, the books have what the record has; and the record
\* has every execution that no row still tells of.
BooksMeetRecords(s) ==
    ~alarm /\ ~s.unknown /\ ~s.raised =>
        \A o \in Orders : handed[o] + rest[o] + s.fills[o] = s.rec[o].filled
NothingForgotten(s, rows) ==
    ~alarm /\ ~missed /\ ~s.unknown /\ ~s.raised =>
        \A o \in Orders : \/ s.rec[o].filled = truth[o].filled
                          \/ \E i \in DOMAIN rows : rows[i].order = o /\ rows[i].filled = truth[o].filled

MessageTypeOK(s) ==
    /\ s \in [rec : Records, fills : [Orders -> Nat], unknown : BOOLEAN, raised : BOOLEAN]
    /\ \A o \in Orders : s.rec[o].status = "NONE" => s.rec[o].filled = 0

\* What holds of a message's effect so far and the rows that are left.
HalfWay(s, rows) ==
    /\ MessageTypeOK(s) /\ BooksBehind(s) /\ BooksMeetRecords(s) /\ NothingForgotten(s, rows)

\* The same between two messages.
FillsInv ==
    /\ FillsTypeOK /\ RowsAreTrue(queue)
    /\ \A o \in Orders : rec[o].status = "NONE" => rec[o].filled = 0
    /\ \A o \in Orders : handed[o] + rest[o] <= rec[o].filled /\ rec[o].filled <= truth[o].filled
    /\ ~alarm => \A o \in Orders : handed[o] + rest[o] = rec[o].filled
    /\ ~alarm /\ ~missed =>
          \A o \in Orders : \/ rec[o].filled = truth[o].filled
                            \/ \E i \in DOMAIN queue : /\ queue[i].order = o
                                                       /\ queue[i].filled = truth[o].filled

-----------------------------------------------------------------------------
(* A message.                                                                *)

\* What one row does to a record: it grows to what the row says.
LEMMA UpdatedType ==
  ASSUME NEW r \in [status : Statuses \cup {"NONE"}, filled : Nat], r.status # "NONE",
         NEW status \in Statuses, NEW filled \in Nat
  PROVE  /\ Updated(r, status, filled) \in [status : Statuses \cup {"NONE"}, filled : Nat]
         /\ Updated(r, status, filled).filled = Larger(r.filled, filled)
         /\ Larger(r.filled, filled) \in {r.filled, filled}
         /\ Larger(r.filled, filled) >= r.filled /\ Larger(r.filled, filled) >= filled
BY DEF Updated, Larger

\* One row keeps the relation between books, records and executions, with the
\* rows that follow it.
LEMMA RowKeeps ==
  ASSUME FillsTypeOK, NEW rows \in Seq(Rows), rows # <<>>, RowsAreTrue(rows),
         NEW s, HalfWay(s, rows)
  PROVE  HalfWay(ApplyRow(s, rows[1]), Tail(rows))
<1> DEFINE row == rows[1]
           o == row.order
           r == s.rec[o]
           status == IF o \in Named THEN row.status ELSE "UNKNOWN"
           new == Updated(r, status, row.filled)
           after == ApplyRow(s, row)
<1>1. /\ row \in Rows /\ 1 \in DOMAIN rows
      /\ Tail(rows) \in Seq(Rows)
      /\ DOMAIN Tail(rows) = 1 .. Len(rows) - 1
      /\ \A i \in 1 .. Len(rows) - 1 : Tail(rows)[i] = rows[i + 1]
      /\ DOMAIN rows = 1 .. Len(rows) /\ Len(rows) \in Nat
  BY HeadTailProperties
<1>2. o \in Orders /\ row.filled \in Nat /\ row.filled <= truth[o].filled
  BY <1>1 DEF Rows, RowsAreTrue
<1>3. status \in Statuses
  BY <1>1 DEF Rows, Statuses, NonTerminal
<1>4. /\ s \in [rec : Records, fills : [Orders -> Nat], unknown : BOOLEAN, raised : BOOLEAN]
      /\ r \in [status : Statuses \cup {"NONE"}, filled : Nat]
  BY <1>2 DEF HalfWay, MessageTypeOK, Records
<1>5. \A x \in Orders : truth[x].filled \in Nat /\ handed[x] \in Nat /\ rest[x] \in Int
  BY DEF FillsTypeOK
<1>6. /\ BooksBehind(s) /\ BooksMeetRecords(s) /\ NothingForgotten(s, rows)
      /\ s.unknown \in BOOLEAN /\ s.raised \in BOOLEAN
  BY <1>4 DEF HalfWay
\* The row that is gone told of what the record now has.
<1>a. ASSUME NEW x \in Orders, x # o,
             \/ s.rec[x].filled = truth[x].filled
             \/ \E i \in DOMAIN rows : rows[i].order = x /\ rows[i].filled = truth[x].filled
      PROVE  \/ s.rec[x].filled = truth[x].filled
             \/ \E i \in DOMAIN Tail(rows) :
                   Tail(rows)[i].order = x /\ Tail(rows)[i].filled = truth[x].filled
  <2> SUFFICES ASSUME NEW i \in DOMAIN rows, rows[i].order = x, rows[i].filled = truth[x].filled
               PROVE  \E k \in DOMAIN Tail(rows) :
                         Tail(rows)[k].order = x /\ Tail(rows)[k].filled = truth[x].filled
    BY <1>a
  <2>1. i # 1
    BY <1>a
  <2>2. i - 1 \in DOMAIN Tail(rows) /\ Tail(rows)[i - 1] = rows[i]
    BY <1>1, <2>1
  <2>. QED
    BY <2>2
<1>b. ASSUME \/ r.filled = truth[o].filled
             \/ \E i \in DOMAIN rows : rows[i].order = o /\ rows[i].filled = truth[o].filled,
             r.filled <= truth[o].filled
      PROVE  \/ Larger(r.filled, row.filled) = truth[o].filled
             \/ \E i \in DOMAIN Tail(rows) :
                   Tail(rows)[i].order = o /\ Tail(rows)[i].filled = truth[o].filled
  <2>1. CASE r.filled = truth[o].filled
    BY <1>2, <1>4, <1>5, <2>1 DEF Larger
  <2>2. ASSUME NEW i \in DOMAIN rows, rows[i].order = o, rows[i].filled = truth[o].filled
        PROVE  \/ Larger(r.filled, row.filled) = truth[o].filled
               \/ \E k \in DOMAIN Tail(rows) :
                     Tail(rows)[k].order = o /\ Tail(rows)[k].filled = truth[o].filled
    <3>1. CASE i = 1
      BY <1>2, <1>4, <1>5, <1>b, <2>2, <3>1 DEF Larger
    <3>2. CASE i # 1
      <4>1. i - 1 \in DOMAIN Tail(rows) /\ Tail(rows)[i - 1] = rows[i]
        BY <1>1, <3>2
      <4>. QED
        BY <2>2, <4>1
    <3>. QED
      BY <3>1, <3>2
  <2>. QED
    BY <1>b, <2>1, <2>2
<1>c. ASSUME NEW m, m \in [status : Statuses \cup {"NONE"}, filled : Nat],
             NEW add \in Nat, NEW unknown \in BOOLEAN, NEW raised \in BOOLEAN,
             after = [rec |-> [s.rec EXCEPT ![o] = m], fills |-> [s.fills EXCEPT ![o] = @ + add],
                      unknown |-> s.unknown \/ unknown, raised |-> raised],
             m.status # "NONE",
             add <= m.filled - r.filled, m.filled = Larger(r.filled, row.filled),
             ~unknown /\ ~raised => add = m.filled - r.filled,
             ~s.raised
      PROVE  HalfWay(after, Tail(rows))
  <2>1. /\ after.rec = [s.rec EXCEPT ![o] = m]
        /\ after.fills = [s.fills EXCEPT ![o] = @ + add]
        /\ after.unknown = (s.unknown \/ unknown)
        /\ after.raised = raised
    BY <1>c
  <2>2. /\ after.rec \in Records /\ after.fills \in [Orders -> Nat]
        /\ \A x \in Orders : x # o => after.rec[x] = s.rec[x] /\ after.fills[x] = s.fills[x]
        /\ after.rec[o] = m /\ after.fills[o] = s.fills[o] + add
    BY <1>2, <1>4, <1>c, <2>1 DEF Records
  <2>3. MessageTypeOK(after)
    <3>1. after \in [rec : Records, fills : [Orders -> Nat], unknown : BOOLEAN, raised : BOOLEAN]
      <4>1. (s.unknown \/ unknown) \in BOOLEAN
        BY <1>6
      <4>. QED
        BY <1>c, <2>1, <2>2, <4>1
    <3>2. ASSUME NEW x \in Orders, after.rec[x].status = "NONE" PROVE after.rec[x].filled = 0
      BY <1>c, <2>2, <3>2 DEF HalfWay, MessageTypeOK
    <3>. QED
      BY <3>1, <3>2 DEF MessageTypeOK
  <2>4. /\ m.filled \in Nat /\ r.filled \in Nat /\ s.fills[o] \in Nat
        /\ m.filled >= r.filled /\ m.filled <= truth[o].filled
        /\ handed[o] + rest[o] + s.fills[o] <= r.filled
        /\ handed[o] \in Nat /\ rest[o] \in Int
    <3>1. handed[o] + rest[o] + s.fills[o] <= r.filled /\ r.filled <= truth[o].filled
      BY <1>2, <1>6 DEF BooksBehind
    <3>. QED
      BY <1>2, <1>4, <1>5, <1>c, <3>1 DEF Larger
  <2> HIDE DEF after, r, row, status, new
  <2>5. BooksBehind(after)
    <3> SUFFICES ASSUME NEW x \in Orders
                 PROVE  /\ handed[x] + rest[x] + after.fills[x] <= after.rec[x].filled
                        /\ after.rec[x].filled <= truth[x].filled
      BY DEF BooksBehind
    <3>1. CASE x = o
      <4>1. add <= m.filled - r.filled
        BY <1>c
      <4>2. /\ handed[o] + rest[o] + (s.fills[o] + add) <= m.filled
            /\ m.filled <= truth[o].filled
        BY <2>4, <4>1
      <4>. QED
        BY <2>2, <3>1, <4>2
    <3>2. CASE x # o
      BY <1>6, <2>2, <3>2 DEF BooksBehind
    <3>. QED
      BY <3>1, <3>2
  <2>6. BooksMeetRecords(after)
    <3> SUFFICES ASSUME ~alarm, ~s.unknown, ~unknown, ~raised, NEW x \in Orders
                 PROVE  handed[x] + rest[x] + after.fills[x] = after.rec[x].filled
      BY <2>1 DEF BooksMeetRecords
    <3>0. handed[x] + rest[x] + s.fills[x] = s.rec[x].filled
      BY <1>6, <1>c DEF BooksMeetRecords
    <3>1. CASE x = o
      <4>1. s.rec[o] = r
        BY DEF r
      <4>. QED
        BY <1>c, <2>2, <2>4, <3>0, <3>1, <4>1
    <3>2. CASE x # o
      BY <2>2, <3>0, <3>2
    <3>. QED
      BY <3>1, <3>2
  <2>7. NothingForgotten(after, Tail(rows))
    <3> SUFFICES ASSUME ~alarm, ~missed, ~s.unknown, NEW x \in Orders
                 PROVE  \/ after.rec[x].filled = truth[x].filled
                        \/ \E i \in DOMAIN Tail(rows) :
                              Tail(rows)[i].order = x /\ Tail(rows)[i].filled = truth[x].filled
      BY <2>1 DEF NothingForgotten
    <3>0. \/ s.rec[x].filled = truth[x].filled
          \/ \E i \in DOMAIN rows : rows[i].order = x /\ rows[i].filled = truth[x].filled
      BY <1>6, <1>c DEF NothingForgotten
    <3>1. CASE x = o
      <4>1. s.rec[o] = r /\ r.filled <= truth[o].filled
        BY <1>2, <1>6 DEF r, BooksBehind
      <4>. QED
        BY <1>b, <1>c, <2>2, <3>0, <3>1, <4>1
    <3>2. CASE x # o
      BY <1>a, <2>2, <3>0, <3>2
    <3>. QED
      BY <3>1, <3>2
  <2>. QED
    BY <2>3, <2>5, <2>6, <2>7 DEF HalfWay
<1>7. CASE s.raised
  <2>1. after = s
    BY <1>7 DEF ApplyRow
  <2>. QED
    BY <1>6, <1>7, <2>1 DEF HalfWay, NothingForgotten
<1>8. CASE ~s.raised /\ r.status = "NONE"
  <2> DEFINE m == [status |-> "UNKNOWN", filled |-> row.filled]
  <2>1. after = [s EXCEPT !.rec[o] = m, !.unknown = TRUE]
    BY <1>8 DEF ApplyRow
  <2>2. m \in [status : Statuses \cup {"NONE"}, filled : Nat] /\ m.status # "NONE"
    BY <1>2 DEF Statuses, NonTerminal
  <2>3. r.filled = 0 /\ m.filled = Larger(r.filled, row.filled)
    BY <1>2, <1>8 DEF HalfWay, MessageTypeOK, Larger
  <2>4. s.fills = [s.fills EXCEPT ![o] = @ + 0]
    BY <1>2, <1>4
  <2>5. s = [rec |-> s.rec, fills |-> s.fills, unknown |-> s.unknown, raised |-> s.raised]
    BY <1>4
  <2>6. after = [rec |-> [s.rec EXCEPT ![o] = m], fills |-> [s.fills EXCEPT ![o] = @ + 0],
                 unknown |-> s.unknown \/ TRUE, raised |-> FALSE]
    BY <1>6, <1>8, <2>1, <2>4, <2>5
  <2>7. 0 <= m.filled - r.filled
    BY <1>2, <2>3
  <2>. QED
    BY <1>8, <1>c, <2>2, <2>3, <2>6, <2>7
<1>9. CASE ~s.raised /\ r.status # "NONE"
  <2>1. /\ new \in [status : Statuses \cup {"NONE"}, filled : Nat]
        /\ new.filled = Larger(r.filled, row.filled)
        /\ new.filled >= r.filled /\ new.status # "NONE"
    <3>1. new.status \in {status, r.status}
      BY DEF Updated
    <3>2. "NONE" \notin Statuses
      BY DEF Statuses, Terminal, NonTerminal
    <3> HIDE DEF status, r, row
    <3>3. /\ new \in [status : Statuses \cup {"NONE"}, filled : Nat]
          /\ new.filled = Larger(r.filled, row.filled)
          /\ new.filled >= r.filled
      BY <1>2, <1>3, <1>4, <1>9, UpdatedType
    <3>4. new.status # "NONE"
      BY <1>3, <1>9, <3>1, <3>2
    <3>. QED
      BY <3>3, <3>4
  <2>5. s = [rec |-> s.rec, fills |-> s.fills, unknown |-> s.unknown, raised |-> s.raised]
    BY <1>4
  <2>2. CASE ~CanTransition(r.status, status)
    <3>1. after = [s EXCEPT !.rec[o] = new, !.raised = TRUE]
      BY <1>9, <2>2 DEF ApplyRow
    <3>2. s.fills = [s.fills EXCEPT ![o] = @ + 0]
      BY <1>2, <1>4
    <3>3. after = [rec |-> [s.rec EXCEPT ![o] = new], fills |-> [s.fills EXCEPT ![o] = @ + 0],
                   unknown |-> s.unknown \/ FALSE, raised |-> TRUE]
      BY <1>6, <3>1, <3>2, <2>5
    <3>4. 0 <= new.filled - r.filled
      BY <1>4, <2>1
    <3>. QED
      BY <1>9, <1>c, <2>1, <3>3, <3>4
  <2>3. CASE CanTransition(r.status, status)
    <3> DEFINE add == Fill(r, new, status)
    <3>1. after = [s EXCEPT !.rec[o] = new, !.fills[o] = @ + add, !.unknown = @ \/ status = "UNKNOWN"]
      BY <1>9, <2>3 DEF ApplyRow
    <3>2. /\ add \in Nat /\ add <= new.filled - r.filled
          /\ status # "UNKNOWN" => add = new.filled - r.filled
      BY <1>4, <2>1 DEF Fill
    <3> HIDE DEF add
    <3>3. after = [rec |-> [s.rec EXCEPT ![o] = new], fills |-> [s.fills EXCEPT ![o] = @ + add],
                   unknown |-> s.unknown \/ status = "UNKNOWN", raised |-> FALSE]
      BY <1>6, <1>9, <3>1, <2>5
    <3>. QED
      BY <1>9, <1>c, <2>1, <3>2, <3>3
  <2>. QED
    BY <2>2, <2>3
<1>. QED
  BY <1>7, <1>8, <1>9

\* Before a message the two are the same.
LEMMA BeforeHalfWay == FillsInv => HalfWay(Before, queue)
<1>1. /\ Before.rec = rec /\ Before.unknown = FALSE /\ Before.raised = FALSE
      /\ Before.fills \in [Orders -> Nat] /\ \A o \in Orders : Before.fills[o] = 0
  BY DEF Before
<1>2. FillsTypeOK => \A o \in Orders : handed[o] \in Nat /\ rest[o] \in Int
  BY DEF FillsTypeOK
<1>3. FillsTypeOK => \A o \in Orders : handed[o] + rest[o] + Before.fills[o] = handed[o] + rest[o]
  BY <1>1, <1>2
<1>4. FillsTypeOK =>
        (MessageTypeOK(Before) <=> \A o \in Orders : rec[o].status = "NONE" => rec[o].filled = 0)
  <2>1. FillsTypeOK => Before \in [rec : Records, fills : [Orders -> Nat], unknown : BOOLEAN, raised : BOOLEAN]
    BY DEF FillsTypeOK, Before
  <2>. QED
    BY <1>1, <2>1 DEF MessageTypeOK
<1>5. FillsTypeOK =>
        /\ BooksBehind(Before) <=>
              \A o \in Orders : handed[o] + rest[o] <= rec[o].filled /\ rec[o].filled <= truth[o].filled
        /\ BooksMeetRecords(Before) <=>
              (~alarm => \A o \in Orders : handed[o] + rest[o] = rec[o].filled)
  BY <1>1, <1>3 DEF BooksBehind, BooksMeetRecords
<1>6. NothingForgotten(Before, queue) <=>
        (~alarm /\ ~missed =>
            \A o \in Orders : \/ rec[o].filled = truth[o].filled
                              \/ \E i \in DOMAIN queue : /\ queue[i].order = o
                                                         /\ queue[i].filled = truth[o].filled)
  BY <1>1 DEF NothingForgotten
<1>. QED
  BY <1>4, <1>5, <1>6 DEF FillsInv, HalfWay

-----------------------------------------------------------------------------
(* The steps.                                                                *)

LEMMA FillsInitInv == FillsInit => FillsInv
<1> SUFFICES ASSUME FillsInit PROVE FillsInv
  OBVIOUS
<1>1. FillsTypeOK
  <2>1. "OPEN" \in Statuses \ {"UNKNOWN"} /\ "SUBMITTING" \in Statuses \cup {"NONE"}
    BY DEF Statuses, NonTerminal
  <2>2. [o \in Orders |-> [status |-> "OPEN", filled |-> 0]]
           \in [Orders -> [status : Statuses \ {"UNKNOWN"}, filled : Nat]]
    BY <2>1
  <2>3. [o \in Orders |-> [status |-> IF o \in Own THEN "SUBMITTING" ELSE "NONE", filled |-> 0]] \in Records
    BY <2>1 DEF Records
  <2>4. [o \in Orders |-> 0] \in [Orders -> Nat] /\ [o \in Orders |-> 0] \in [Orders -> Int]
    OBVIOUS
  <2>5. <<>> \in Seq(Rows)
    OBVIOUS
  <2>6. rec \in Records
    BY <2>3 DEF FillsInit
  <2>7. truth \in [Orders -> [status : Statuses \ {"UNKNOWN"}, filled : Nat]]
    BY <2>2 DEF FillsInit
  <2>8. handed \in [Orders -> Nat] /\ rest \in [Orders -> Int] /\ queue \in Seq(Rows)
    BY <2>4, <2>5 DEF FillsInit
  <2>9. up \in BOOLEAN /\ missed \in BOOLEAN /\ alarm \in BOOLEAN
    BY DEF FillsInit
  <2>. QED
    BY <2>6, <2>7, <2>8, <2>9 DEF FillsTypeOK
<1>2. queue = <<>>
  BY DEF FillsInit
<1>3. RowsAreTrue(queue)
  BY <1>2 DEF RowsAreTrue
<1>4. \A o \in Orders : handed[o] = 0 /\ rest[o] = 0 /\ rec[o].filled = 0 /\ truth[o].filled = 0
  BY DEF FillsInit
<1>. QED
  BY <1>1, <1>3, <1>4 DEF FillsInv

\* News of an order: it has more executed size, or another status.
LEMMA NewsKeeps ==
  ASSUME FillsInv, NEW o \in Orders,
         NEW t, t \in [status : Statuses \ {"UNKNOWN"}, filled : Nat], t.filled >= truth[o].filled,
         truth' = [truth EXCEPT ![o] = t], Tell(o), UNCHANGED <<up, rec, handed, rest, alarm>>
  PROVE  FillsInv'
<1>1. /\ truth \in [Orders -> [status : Statuses \ {"UNKNOWN"}, filled : Nat]]
      /\ queue \in Seq(Rows) /\ missed \in BOOLEAN
      /\ Len(queue) \in Nat /\ DOMAIN queue = 1 .. Len(queue)
      /\ FillsTypeOK /\ RowsAreTrue(queue)
      /\ \A i \in DOMAIN queue : queue[i].order \in Orders /\ queue[i].filled \in Nat
  <2>1. queue \in Seq(Rows)
    BY DEF FillsInv, FillsTypeOK
  <2>2. \A i \in DOMAIN queue : queue[i] \in Rows
    BY <2>1
  <2>3. \A i \in DOMAIN queue : queue[i].order \in Orders /\ queue[i].filled \in Nat
    BY <2>2 DEF Rows
  <2>4. Len(queue) \in Nat /\ DOMAIN queue = 1 .. Len(queue)
    BY <2>1
  <2>. QED
    BY <2>1, <2>3, <2>4 DEF FillsInv, FillsTypeOK
<1>2. /\ truth'[o] = t /\ \A x \in Orders \ {o} : truth'[x] = truth[x]
      /\ \A x \in Orders : truth'[x].filled >= truth[x].filled
      /\ \A x \in Orders : truth'[x].filled \in Nat /\ truth[x].filled \in Nat
      /\ truth' \in [Orders -> [status : Statuses \ {"UNKNOWN"}, filled : Nat]]
  BY <1>1
<1> DEFINE row == [order |-> o, status |-> t.status, filled |-> t.filled]
<1>3. \/ up /\ queue' = Append(queue, row) /\ missed' = missed
      \/ missed' = TRUE /\ queue' = queue
  BY <1>2 DEF Tell
<1>4. row \in Rows
  BY DEF Rows, Statuses
<1>5. /\ queue' \in Seq(Rows)
      /\ Len(queue') \in Nat /\ DOMAIN queue' = 1 .. Len(queue') /\ Len(queue') >= Len(queue)
      /\ \A i \in DOMAIN queue : i \in DOMAIN queue' /\ queue'[i] = queue[i]
      /\ \A i \in DOMAIN queue' : i \in DOMAIN queue \/ queue'[i] = row
      /\ ~missed' => \E i \in DOMAIN queue' : queue'[i] = row
  <2>1. CASE queue' = queue /\ missed'
    BY <1>1, <2>1
  <2>2. CASE queue' = Append(queue, row)
    <3>1. /\ Append(queue, row) \in Seq(Rows) /\ Len(Append(queue, row)) = Len(queue) + 1
          /\ \A i \in 1 .. Len(queue) : Append(queue, row)[i] = queue[i]
          /\ Append(queue, row)[Len(queue) + 1] = row
          /\ DOMAIN Append(queue, row) = 1 .. Len(queue) + 1
      BY <1>1, <1>4, AppendProperties
    <3> HIDE DEF row
    <3>. QED
      BY <1>1, <2>2, <3>1
  <2>. QED
    BY <1>3, <2>1, <2>2
<1>6. FillsTypeOK'
  BY <1>1, <1>2, <1>3, <1>5 DEF FillsTypeOK
<1>7. RowsAreTrue(queue)'
  <2> SUFFICES ASSUME NEW i \in DOMAIN queue'
               PROVE  queue'[i].filled <= truth'[queue'[i].order].filled
    BY DEF RowsAreTrue
  <2>1. CASE i \in DOMAIN queue
    <3>1. queue'[i] = queue[i] /\ queue[i].order \in Orders /\ queue[i].filled \in Nat
      BY <1>1, <1>5, <2>1
    <3>2. queue[i].filled <= truth[queue[i].order].filled
      BY <1>1, <2>1 DEF RowsAreTrue
    <3>. QED
      BY <1>2, <3>1, <3>2
  <2>2. CASE queue'[i] = row
    BY <1>2, <2>2
  <2>. QED
    BY <1>5, <2>1, <2>2
<1>8. \A x \in Orders : rec[x].filled \in Nat /\ handed[x] \in Nat /\ rest[x] \in Int
  BY <1>1 DEF FillsTypeOK, Records
<1>9. /\ \A x \in Orders : rec'[x].status = "NONE" => rec'[x].filled = 0
      /\ \A x \in Orders : handed'[x] + rest'[x] <= rec'[x].filled
      /\ ~alarm' => \A x \in Orders : handed'[x] + rest'[x] = rec'[x].filled
  BY DEF FillsInv
<1>10. ASSUME NEW x \in Orders PROVE rec'[x].filled <= truth'[x].filled
  <2>1. rec[x].filled <= truth[x].filled
    BY DEF FillsInv
  <2>. QED
    BY <1>2, <1>8, <2>1
<1>11. ASSUME ~alarm', ~missed', NEW x \in Orders
       PROVE  \/ rec'[x].filled = truth'[x].filled
              \/ \E i \in DOMAIN queue' : queue'[i].order = x /\ queue'[i].filled = truth'[x].filled
  <2>1. CASE x = o
    <3>1. PICK i \in DOMAIN queue' : queue'[i] = row
      BY <1>5, <1>11
    <3>. QED
      BY <1>2, <2>1, <3>1
  <2>2. CASE x # o
    <3>1. ~alarm /\ ~missed
      BY <1>3, <1>11
    <3>2. \/ rec[x].filled = truth[x].filled
          \/ \E i \in DOMAIN queue : queue[i].order = x /\ queue[i].filled = truth[x].filled
      BY <3>1 DEF FillsInv
    <3>. QED
      BY <1>2, <1>5, <2>2, <3>2
  <2>. QED
    BY <2>1, <2>2
<1>. QED
  BY <1>6, <1>7, <1>9, <1>10, <1>11 DEF FillsInv

LEMMA ExchangeKeeps ==
  ASSUME FillsInv, NEW o \in Orders, Execute(o) \/ CancelOnExchange(o)
  PROVE  FillsInv'
<1>1. truth[o].status \in Statuses /\ truth[o].filled \in Nat
  BY DEF FillsInv, FillsTypeOK
<1>2. CASE Execute(o)
  <2>1. PICK filled \in truth[o].filled + 1 .. Size :
            truth' = [truth EXCEPT ![o] = [status |-> IF filled = Size THEN "FILLED" ELSE "PARTIALLY_FILLED",
                                           filled |-> filled]]
    BY <1>2 DEF Execute
  <2>2. filled \in Nat /\ filled >= truth[o].filled
    BY <1>1, OrdersAssumption
  <2> DEFINE t == [status |-> IF filled = Size THEN "FILLED" ELSE "PARTIALLY_FILLED", filled |-> filled]
  <2>3. t \in [status : Statuses \ {"UNKNOWN"}, filled : Nat] /\ t.filled >= truth[o].filled
    BY <2>2 DEF Statuses, Terminal, NonTerminal
  <2>4. truth' = [truth EXCEPT ![o] = t]
    BY <2>1
  <2> HIDE DEF t
  <2>. QED
    BY <1>2, <2>3, <2>4, NewsKeeps DEF Execute
<1>3. CASE CancelOnExchange(o)
  <2> DEFINE t == [status |-> IF truth[o].status = "OPEN" THEN "CANCELED" ELSE "PARTIALLY_CANCELED",
                   filled |-> truth[o].filled]
  <2>1. t \in [status : Statuses \ {"UNKNOWN"}, filled : Nat] /\ t.filled >= truth[o].filled
    BY <1>1 DEF Statuses, Terminal, NonTerminal
  <2>2. truth' = [truth EXCEPT ![o] = t]
    <3>1. /\ truth' = [truth EXCEPT ![o].status = IF @ = "OPEN" THEN "CANCELED" ELSE "PARTIALLY_CANCELED"]
          /\ truth \in [Orders -> [status : Statuses \ {"UNKNOWN"}, filled : Nat]]
      BY <1>3 DEF CancelOnExchange, FillsInv, FillsTypeOK
    <3>2. truth[o] \in [status : Statuses \ {"UNKNOWN"}, filled : Nat]
      BY <3>1
    <3>3. [truth[o] EXCEPT !.status = t.status] = t
      BY <3>2
    <3>4. truth' = [truth EXCEPT ![o] = [truth[o] EXCEPT !.status = t.status]]
      BY <3>1
    <3> HIDE DEF t
    <3>. QED
      BY <3>3, <3>4
  <2> HIDE DEF t
  <2>. QED
    BY <1>3, <2>1, <2>2, NewsKeeps DEF CancelOnExchange
<1>. QED
  BY <1>2, <1>3

LEMMA ConnectionKeeps ==
  ASSUME FillsInv, Subscribe \/ CloseInOrder \/ ConnectionFails
  PROVE  FillsInv'
<1>1. CASE Subscribe
  BY <1>1 DEF Subscribe, FillsInv, FillsTypeOK, RowsAreTrue
<1>2. ASSUME queue' = <<>>, up' = FALSE, UNCHANGED <<truth, rec, handed, rest>>,
             (alarm' = alarm /\ (~missed' => ~missed /\ queue = <<>>)) \/ alarm',
             missed' \in BOOLEAN, alarm' \in BOOLEAN
      PROVE  FillsInv'
  <2>1. FillsTypeOK'
    <3>1. <<>> \in Seq(Rows)
      OBVIOUS
    <3>. QED
      BY <1>2, <3>1 DEF FillsInv, FillsTypeOK
  <2>2. RowsAreTrue(queue)'
    BY <1>2 DEF RowsAreTrue
  <2>3. ~alarm' => ~alarm /\ (~missed' => ~missed /\ queue = queue')
    BY <1>2
  <2>. QED
    BY <1>2, <2>1, <2>2, <2>3 DEF FillsInv
<1>3. missed \in BOOLEAN /\ alarm \in BOOLEAN
  BY DEF FillsInv, FillsTypeOK
<1>4. CASE CloseInOrder
  <2>1. missed' = (missed \/ queue # <<>>)
    BY <1>4 DEF CloseInOrder
  <2>2. missed' \in BOOLEAN /\ (~missed' => ~missed /\ queue = <<>>)
    BY <1>3, <2>1
  <2>. QED
    BY <1>2, <1>3, <1>4, <2>2 DEF CloseInOrder, Drop
<1>5. CASE ConnectionFails
  BY <1>2, <1>3, <1>5 DEF ConnectionFails, Drop
<1>. QED
  BY <1>1, <1>4, <1>5

\* Another status says nothing of executions.
LEMMA StatusKeeps ==
  ASSUME FillsInv, NEW o \in Own, Acknowledged(o) \/ CancelAsked(o) \/ CancelAnswered(o)
  PROVE  FillsInv'
<1>1. PICK status \in {"OPEN", "UNKNOWN", "CANCELING", "CANCELED"} : Becomes(o, status)
  BY DEF Acknowledged, CancelAsked, CancelAnswered
<1>2. status \in Statuses /\ status # "NONE" /\ o \in Orders
  BY OrdersAssumption DEF Statuses, Terminal, NonTerminal
<1>3. /\ rec' = [rec EXCEPT ![o].status = status]
      /\ UNCHANGED <<truth, queue, up, handed, rest, missed, alarm>>
  BY <1>1 DEF Becomes
<1>4. rec \in Records
  BY DEF FillsInv, FillsTypeOK
<1>5. /\ rec' \in Records
      /\ \A x \in Orders : rec'[x].filled = rec[x].filled
      /\ \A x \in Orders : rec'[x].status = "NONE" => rec[x].status = "NONE"
  BY <1>2, <1>3, <1>4 DEF Records
<1>6. FillsTypeOK'
  BY <1>3, <1>5 DEF FillsInv, FillsTypeOK
<1>7. RowsAreTrue(queue)'
  BY <1>3 DEF FillsInv, RowsAreTrue
<1>. QED
  BY <1>3, <1>5, <1>6, <1>7 DEF FillsInv

\* What a reconciliation finds first is not reported as a fill.
LEMMA ReconcileKeeps ==
  ASSUME FillsInv, NEW o \in Orders, ReconcileRow(o)
  PROVE  FillsInv'
<1>1. /\ rec \in Records /\ rest \in [Orders -> Int] /\ handed \in [Orders -> Nat]
      /\ truth[o].filled \in Nat /\ truth[o].status \in Statuses
      /\ rec[o].filled \in Nat /\ rec[o].filled <= truth[o].filled
      /\ rec[o] \in [status : Statuses \cup {"NONE"}, filled : Nat]
  BY DEF FillsInv, FillsTypeOK, Records
<1>2. UNCHANGED <<truth, queue, up, handed, missed>>
  BY DEF ReconcileRow
<1>3. RowsAreTrue(queue)'
  BY <1>2 DEF FillsInv, RowsAreTrue
<1>4. CASE rec[o].status = "NONE"
  <2>1. /\ rec' = [rec EXCEPT ![o] = [status |-> "UNKNOWN", filled |-> truth[o].filled]]
        /\ alarm' = TRUE /\ rest' = rest
    BY <1>4 DEF ReconcileRow
  <2>2. /\ rec' \in Records
        /\ rec'[o].filled = truth[o].filled /\ rec'[o].status # "NONE"
        /\ \A x \in Orders : x # o => rec'[x] = rec[x]
    BY <1>1, <2>1 DEF Records, Statuses, NonTerminal
  <2>3. FillsTypeOK'
    BY <1>2, <2>1, <2>2 DEF FillsInv, FillsTypeOK
  <2>4. handed[o] + rest[o] <= truth[o].filled
    <3>1. handed[o] + rest[o] <= rec[o].filled /\ handed[o] \in Nat /\ rest[o] \in Int
      BY <1>1 DEF FillsInv
    <3>. QED
      BY <1>1, <3>1
  <2>5. ASSUME NEW x \in Orders
        PROVE  handed'[x] + rest'[x] <= rec'[x].filled /\ rec'[x].filled <= truth'[x].filled
    BY <1>1, <1>2, <2>1, <2>2, <2>4 DEF FillsInv
  <2>6. ASSUME NEW x \in Orders, rec'[x].status = "NONE" PROVE rec'[x].filled = 0
    BY <2>2, <2>6 DEF FillsInv
  <2>. QED
    BY <1>3, <2>1, <2>3, <2>5, <2>6 DEF FillsInv
<1>5. CASE rec[o].status # "NONE"
  <2> DEFINE new == Updated(rec[o], truth[o].status, truth[o].filled)
  <2>1. /\ rec' = [rec EXCEPT ![o] = new]
        /\ rest' = [rest EXCEPT ![o] = @ + rec'[o].filled - rec[o].filled]
        /\ alarm' = alarm
        /\ CanTransition(rec[o].status, truth[o].status)
    BY <1>5 DEF ReconcileRow
  <2>2. /\ new \in [status : Statuses \cup {"NONE"}, filled : Nat]
        /\ new.filled = Larger(rec[o].filled, truth[o].filled)
    BY <1>1, <1>5, UpdatedType
  <2>3. new.filled = truth[o].filled
    BY <1>1, <2>2 DEF Larger
  <2>4. new.status # "NONE"
    BY <1>1, <2>1 DEF Updated, Statuses, Terminal, NonTerminal
  <2> HIDE DEF new
  <2>5. /\ rec' \in Records
        /\ rec'[o].filled = truth[o].filled /\ rec'[o].status # "NONE"
        /\ \A x \in Orders : x # o => rec'[x] = rec[x]
    BY <1>1, <2>1, <2>2, <2>3, <2>4 DEF Records
  <2>6. /\ rest' \in [Orders -> Int]
        /\ rest'[o] = rest[o] + truth[o].filled - rec[o].filled
        /\ \A x \in Orders : x # o => rest'[x] = rest[x]
    BY <1>1, <2>1, <2>5
  <2>7. FillsTypeOK'
    BY <1>2, <2>1, <2>5, <2>6 DEF FillsInv, FillsTypeOK
  <2>8. /\ handed[o] + rest'[o] <= truth[o].filled
        /\ handed[o] + rest[o] = rec[o].filled => handed[o] + rest'[o] = truth[o].filled
    <3>1. handed[o] + rest[o] <= rec[o].filled /\ handed[o] \in Nat /\ rest[o] \in Int
      BY <1>1 DEF FillsInv
    <3>. QED
      BY <1>1, <2>6, <3>1
  <2>9. ASSUME NEW x \in Orders
        PROVE  handed'[x] + rest'[x] <= rec'[x].filled /\ rec'[x].filled <= truth'[x].filled
    BY <1>1, <1>2, <2>1, <2>5, <2>6, <2>8 DEF FillsInv
  <2>10. ASSUME NEW x \in Orders, rec'[x].status = "NONE" PROVE rec'[x].filled = 0
    BY <2>5, <2>10 DEF FillsInv
  <2>11. ASSUME ~alarm', NEW x \in Orders PROVE handed'[x] + rest'[x] = rec'[x].filled
    BY <1>2, <2>1, <2>5, <2>6, <2>8, <2>11 DEF FillsInv
  <2>12. ASSUME ~alarm', ~missed', NEW x \in Orders
         PROVE  \/ rec'[x].filled = truth'[x].filled
                \/ \E i \in DOMAIN queue' : queue'[i].order = x /\ queue'[i].filled = truth'[x].filled
    BY <1>2, <2>1, <2>5, <2>12 DEF FillsInv
  <2>. QED
    BY <1>3, <2>7, <2>9, <2>10, <2>11, <2>12 DEF FillsInv
<1>. QED
  BY <1>4, <1>5

\* A message whose rows have been applied, and the rows that are left.
LEMMA MessageKeeps ==
  ASSUME FillsInv, NEW after, NEW rows \in Seq(Rows), HalfWay(after, rows), RowsAreTrue(rows),
         rec' = after.rec,
         handed' = IF after.raised THEN handed ELSE [o \in Orders |-> handed[o] + after.fills[o]],
         alarm' = (alarm \/ after.unknown \/ after.raised),
         IF after.raised THEN Drop ELSE queue' = rows /\ UNCHANGED up,
         UNCHANGED <<truth, rest, missed>>
  PROVE  FillsInv'
<1>1. /\ after.rec \in Records /\ after.fills \in [Orders -> Nat]
      /\ after.unknown \in BOOLEAN /\ after.raised \in BOOLEAN
      /\ \A o \in Orders : after.rec[o].status = "NONE" => after.rec[o].filled = 0
      /\ \A o \in Orders : after.rec[o].filled \in Nat
  BY DEF HalfWay, MessageTypeOK, Records
<1>2. /\ handed \in [Orders -> Nat] /\ rest \in [Orders -> Int] /\ alarm \in BOOLEAN /\ up \in BOOLEAN
  BY DEF FillsInv, FillsTypeOK
<1>3. /\ handed' \in [Orders -> Nat]
      /\ \A o \in Orders : handed'[o] = IF after.raised THEN handed[o] ELSE handed[o] + after.fills[o]
  BY <1>1, <1>2
<1>4. queue' \in Seq(Rows) /\ RowsAreTrue(queue') /\ up' \in BOOLEAN
  <2>1. <<>> \in Seq(Rows) /\ RowsAreTrue(<<>>)
    BY DEF RowsAreTrue
  <2>. QED
    BY <1>2, <2>1 DEF Drop
<1>5. FillsTypeOK'
  BY <1>1, <1>2, <1>3, <1>4 DEF FillsInv, FillsTypeOK
<1>6. RowsAreTrue(queue)'
  BY <1>4 DEF RowsAreTrue
<1>7. ASSUME NEW o \in Orders
      PROVE  handed'[o] + rest'[o] <= rec'[o].filled /\ rec'[o].filled <= truth'[o].filled
  <2>1. handed[o] + rest[o] + after.fills[o] <= after.rec[o].filled /\ after.rec[o].filled <= truth[o].filled
    BY DEF HalfWay, BooksBehind
  <2>2. handed[o] \in Nat /\ rest[o] \in Int /\ after.fills[o] \in Nat /\ after.rec[o].filled \in Nat
    BY <1>1, <1>2
  <2>3. handed'[o] + rest'[o] <= handed[o] + rest[o] + after.fills[o]
    BY <1>3, <2>2
  <2>4. handed'[o] + rest'[o] \in Int
    BY <1>3, <2>2
  <2>. QED
    BY <2>1, <2>2, <2>3, <2>4
<1>8. ASSUME ~alarm'
      PROVE  /\ ~alarm /\ ~after.unknown /\ ~after.raised /\ queue' = rows
             /\ \A o \in Orders : handed'[o] = handed[o] + after.fills[o]
  BY <1>3, <1>8
<1>9. ASSUME ~alarm', NEW o \in Orders PROVE handed'[o] + rest'[o] = rec'[o].filled
  <2>1. handed[o] + rest[o] + after.fills[o] = after.rec[o].filled
    BY <1>8, <1>9 DEF HalfWay, BooksMeetRecords
  <2>2. handed[o] \in Nat /\ rest[o] \in Int /\ after.fills[o] \in Nat /\ after.rec[o].filled \in Nat
    BY <1>1, <1>2
  <2>3. handed'[o] = handed[o] + after.fills[o]
    BY <1>8, <1>9
  <2>. QED
    BY <2>1, <2>2, <2>3
<1>10. ASSUME ~alarm', ~missed', NEW o \in Orders
       PROVE  \/ rec'[o].filled = truth'[o].filled
              \/ \E i \in DOMAIN queue' : queue'[i].order = o /\ queue'[i].filled = truth'[o].filled
  BY <1>8, <1>10 DEF HalfWay, NothingForgotten
<1>. QED
  BY <1>1, <1>5, <1>6, <1>7, <1>9, <1>10 DEF FillsInv

\* The rows of a message, one or two, are the first of the queue.
LEMMA ReceiveKeeps ==
  ASSUME FillsInv, NEW n \in 1 .. 2, Receive(n)
  PROVE  FillsInv'
<1>1. /\ queue \in Seq(Rows) /\ RowsAreTrue(queue) /\ FillsTypeOK
      /\ n <= Len(queue) /\ HalfWay(Before, queue)
  BY BeforeHalfWay DEF FillsInv, FillsTypeOK, Receive
<1>2. ASSUME NEW rows \in Seq(Rows), RowsAreTrue(rows), Len(rows) >= 1
      PROVE  /\ rows # <<>> /\ Tail(rows) \in Seq(Rows) /\ RowsAreTrue(Tail(rows))
             /\ Len(Tail(rows)) = Len(rows) - 1
             /\ \A i \in 1 .. Len(rows) - 1 : Tail(rows)[i] = rows[i + 1]
  <2>1. rows # <<>>
    BY <1>2
  <2>2. /\ Tail(rows) \in Seq(Rows) /\ Len(Tail(rows)) = Len(rows) - 1
        /\ \A i \in 1 .. Len(rows) - 1 : Tail(rows)[i] = rows[i + 1]
        /\ DOMAIN Tail(rows) = 1 .. Len(rows) - 1 /\ DOMAIN rows = 1 .. Len(rows)
    BY <2>1, HeadTailProperties
  <2>3. RowsAreTrue(Tail(rows))
    BY <1>2, <2>2 DEF RowsAreTrue
  <2>. QED
    BY <2>1, <2>2, <2>3
<1> DEFINE first == ApplyRow(Before, queue[1])
           after == IF n = 1 THEN first ELSE ApplyRow(first, queue[2])
<1>a. /\ rec' = after.rec
      /\ handed' = IF after.raised THEN handed ELSE [o \in Orders |-> handed[o] + after.fills[o]]
      /\ alarm' = (alarm \/ after.unknown \/ after.raised)
      /\ IF after.raised THEN Drop ELSE queue' = SubSeq(queue, n + 1, Len(queue)) /\ UNCHANGED up
      /\ UNCHANGED <<truth, rest, missed>>
  BY Zenon DEF Receive
<1>b. (n = 1 => after = first) /\ (n = 2 => after = ApplyRow(first, queue[2]))
  OBVIOUS
<1> HIDE DEF after
<1>3. /\ HalfWay(first, Tail(queue)) /\ Tail(queue) \in Seq(Rows) /\ RowsAreTrue(Tail(queue))
      /\ Len(Tail(queue)) = Len(queue) - 1
  BY <1>1, <1>2, RowKeeps
<1> HIDE DEF first
<1>4. CASE n = 1
  <2>1. Tail(queue) = SubSeq(queue, n + 1, Len(queue))
    BY <1>4 DEF Tail, SubSeq
  <2>. QED
    BY <1>3, <1>4, <1>a, <1>b, <2>1, MessageKeeps
<1>5. CASE n = 2
  <2> DEFINE second == ApplyRow(first, queue[2])
  <2>1. Tail(queue)[1] = queue[2] /\ Len(Tail(queue)) >= 1
    BY <1>1, <1>2, <1>3, <1>5
  <2>2. /\ HalfWay(second, Tail(Tail(queue))) /\ Tail(Tail(queue)) \in Seq(Rows)
        /\ RowsAreTrue(Tail(Tail(queue)))
    BY <1>1, <1>2, <1>3, <2>1, RowKeeps
  <2>3. Tail(Tail(queue)) = SubSeq(queue, n + 1, Len(queue))
    BY <1>1, <1>5
  <2>4. after = second
    BY <1>5, <1>b
  <2> HIDE DEF second
  <2>. QED
    BY <1>5, <1>a, <1>b, <2>2, <2>3, <2>4, MessageKeeps
<1>. QED
  BY <1>4, <1>5

LEMMA FillsStepInv == FillsInv /\ [FillsNext]_fillVars => FillsInv'
<1> SUFFICES ASSUME FillsInv, [FillsNext]_fillVars PROVE FillsInv'
  OBVIOUS
<1>1. CASE UNCHANGED fillVars
  BY <1>1 DEF fillVars, FillsInv, FillsTypeOK, RowsAreTrue
<1>2. CASE FillsNext
  BY <1>2, ExchangeKeeps, ReconcileKeeps, StatusKeeps, ConnectionKeeps, ReceiveKeeps DEF FillsNext
<1>. QED
  BY <1>1, <1>2

\* PnL and hedging are given no execution twice; and while no alarm is raised
\* and nothing was missed between two connections, they have been given every
\* execution that is not under way, except what a reconciliation found first
\* (private_stream.py:70-101, app.py:377-424, rest.py:220-252).
THEOREM FillsAlwaysReachTheBooks == FillsSpec => []FillsReachTheBooks
<1>1. FillsInv => FillsReachTheBooks
  <2> SUFFICES ASSUME FillsInv PROVE FillsReachTheBooks
    OBVIOUS
  <2>1. \A o \in Orders : /\ handed[o] \in Nat /\ rest[o] \in Int
                          /\ rec[o].filled \in Nat /\ truth[o].filled \in Nat
    BY DEF FillsInv, FillsTypeOK, Records
  <2>2. \A o \in Orders : handed[o] + rest[o] <= truth[o].filled
    BY <2>1 DEF FillsInv
  <2>3. ASSUME ~alarm, ~missed, queue = <<>>, NEW o \in Orders
        PROVE  handed[o] + rest[o] = truth[o].filled
    BY <2>3 DEF FillsInv
  <2>. QED
    BY <2>2, <2>3 DEF FillsReachTheBooks
<1>. QED
  BY <1>1, FillsInitInv, FillsStepInv, PTL DEF FillsSpec
=============================================================================

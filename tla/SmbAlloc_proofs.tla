-------------------------- MODULE SmbAlloc_proofs ---------------------------
(***************************************************************************)
(* Proofs about the allocation tables of a message base.                   *)
(*                                                                         *)
(* Types, and that no two headers share a block, hold for every use of a   *)
(* base.  What depends on the reference counts holds if no purge runs      *)
(* while a bulk mailing or a forwarding is under way (a purge beside one   *)
(* frees text that is still to be referred to), and if the counts cannot   *)
(* wrap at 65536.                                                          *)
(*                                                                         *)
(* The invariant relates the tables to what is live and what is under way: *)
(* every text in use is on disk and in blocks of its own, no count falls   *)
(* short of the headers and reservations that are due to it, except for a  *)
(* mailing that ended before its references were added, and none grows     *)
(* beyond what recipients not found and forwardings given up have left     *)
(* over.  It holds until a message of an uncounted mailing is purged.      *)
(***************************************************************************)
EXTENDS SmbAlloc, FiniteSetTheorems, TLAPS

\* The counts cannot reach the limit of their type: every message number and every
\* recipient of a bulk mailing counted twice, as in a block that body and tail share.
CountsFit ==
  IsFiniteSet(Nums) /\ 2 * (Cardinality(Nums) + MaxSent + MaxStray + 1) < MaxRefs

\* Purges keep off while a header is being added to text that is there already.
OneAtATime == CountsFit /\ ~Concurrent

---------------------------------------------------------------------------
(* The invariant *)

\* The data fields with a claim on their blocks.
Reserved == {x.data : x \in InProgress}
DataInUse == {m.data : m \in live} \union Reserved

\* The text of each is where its header says, and no other text is.
Stored(d) == \A b \in Span(d) : b < Len(sda) /\ sdt[b + 1] = d.text

TextsStored == \A d \in DataInUse : Stored(d)

TextsDistinct == \A d, e \in DataInUse : d.text = e.text => d = e

\* Nothing else refers to the text of a message before its header is added.
PendFresh ==
  pend # None =>
    /\ \A m \in live : m.data.text # pend.data.text
    /\ \A x \in {bulk, fwd} \ {None} : x.data.text # pend.data.text

BulkFresh ==
  bulk # None /\ bulk.sent = 0 =>
    /\ \A m \in live : m.data.text # bulk.data.text
    /\ fwd # None => fwd.data.text # bulk.data.text

DataInv == TextsStored /\ TextsDistinct /\ PendFresh /\ BulkFresh

\* Each header has its blocks, and the number no other header has.
Placed(m) ==
  \A b \in m.at .. m.at + m.blocks - 1 : shd[b + 1] = m.num /\ sha[b + 1] = 1

HeaderInv ==
  /\ IsFiniteSet(live)
  /\ \A m \in live : Placed(m)
  /\ \A m, k \in live : m.num = k.num => m = k

Uses(x, b) == x # None /\ b \in Span(x.data)

Counted(b) == IF Uses(fwd, b) /\ fwd.counted THEN 1 ELSE 0

\* The references to block b that should be counted by now: those of a bulk mailing
\* are counted at its end, all but the first.
Due(b) ==
  Cardinality(Users(b)) + (IF Uses(pend, b) THEN 1 ELSE 0) + Counted(b)
    + (IF Uses(bulk, b) THEN 1 - bulk.sent ELSE 0)

\* A count never falls to zero, nor short of what is due, but for an uncounted mailing.
\* The block of a body and a tail is visited twice, but its first message counts once; a
\* recipient that is not found is due nothing, so that a forwarding under way is counted
\* apart.
Enough(d, b) ==
  /\ sda[b + 1] >= 1
  /\ d \notin history.short => sda[b + 1] >= 1 + Visits(d, b) * (Due(b) - 1)
  /\ Counted(b) = 1 => sda[b + 1] >= 1 + Visits(d, b)

\* Nor does it grow beyond what recipients not found and forwardings given up left over.
Slack(b) == history.stray + (IF Uses(bulk, b) THEN 0 ELSE MaxSent)

Limited(d, b) ==
  sda[b + 1] <= 1 + Visits(d, b) * (Cardinality(Users(b)) + Counted(b) + Slack(b))

CountInv == \A d \in DataInUse : \A b \in Span(d) : Enough(d, b) /\ Limited(d, b)

\* Without tails, and when nothing but the adding of a header fails, it is exact.
Simple == TailLens = {0} /\ Faults \subseteq {"header"}

ExactInv == Simple => \A b \in 0..(Len(sda) - 1) : sda[b + 1] = Due(b)

\* No reference is then left out.
QuietInv == Simple => history.short = {} /\ ~Spoiled

---------------------------------------------------------------------------
(* Blocks *)

\* BlockLen * DatBlocks(n) is the first multiple of BlockLen that is not below n.
LEMMA DatBlocksBounds ==
  ASSUME NEW n \in Nat
  PROVE  /\ DatBlocks(n) \in Nat
         /\ n <= BlockLen * DatBlocks(n)
         /\ BlockLen * DatBlocks(n) < n + BlockLen
<1> DEFINE x == n + BlockLen - 1
<1>1. x \in Nat /\ BlockLen \in Nat \ {0} BY SmbAllocAssumption
<1>2. /\ x \div BlockLen \in Nat /\ x % BlockLen \in 0..(BlockLen - 1)
      /\ x = BlockLen * (x \div BlockLen) + (x % BlockLen)
  BY <1>1, SMT
<1> QED BY <1>1, <1>2 DEF DatBlocks

LEMMA BodyInSpan ==
  ASSUME NEW body \in Nat, NEW tail \in Nat
  PROVE  DatBlocks(body) <= DatBlocks(body + tail)
<1> DEFINE p == DatBlocks(body)
           q == DatBlocks(body + tail)
<1>1. p \in Nat /\ q \in Nat /\ BlockLen \in Nat \ {0}
      /\ BlockLen * p < body + BlockLen /\ body + tail <= BlockLen * q
  BY DatBlocksBounds, SmbAllocAssumption
<1> HIDE DEF p, q
<1>2. BlockLen * p < BlockLen * q + BlockLen BY <1>1
<1>3. BlockLen * p < BlockLen * (q + 1) BY <1>1, <1>2
<1>4. p < q + 1 BY <1>1, <1>3, SMT
<1> QED BY <1>4, <1>1 DEF p, q

LEMMA TailInSpan ==
  ASSUME NEW body \in Nat, NEW tail \in Nat
  PROVE  /\ body \div BlockLen \in Nat
         /\ body \div BlockLen + DatBlocks(tail) <= DatBlocks(body + tail)
<1> DEFINE k == body \div BlockLen
           p == DatBlocks(tail)
           q == DatBlocks(body + tail)
<1>1. k \in Nat /\ BlockLen \in Nat \ {0} /\ BlockLen * k <= body
  BY SmbAllocAssumption, SMT
<1>2. p \in Nat /\ q \in Nat
      /\ BlockLen * p < tail + BlockLen /\ body + tail <= BlockLen * q
  BY DatBlocksBounds
<1> HIDE DEF k, p, q
<1>3. BlockLen * k + BlockLen * p < BlockLen * q + BlockLen BY <1>1, <1>2
<1>4. BlockLen * (k + p) < BlockLen * (q + 1) BY <1>1, <1>2, <1>3
<1>5. k + p < q + 1 BY <1>1, <1>2, <1>4, SMT
<1> QED BY <1>5, <1>1, <1>2 DEF k, p, q

\* A data field of any length.
AnyData == [text : Texts, at : Nat, body : Nat, tail : Nat]

\* A walk over the fields of a message stays in its data.
LEMMA FieldsInSpan ==
  ASSUME NEW d \in AnyData
  PROVE  BodyBlocks(d) \subseteq Span(d) /\ TailBlocks(d) \subseteq Span(d)
<1>1. /\ d.at \in Nat /\ d.body \in Nat /\ d.tail \in Nat BY DEF AnyData
<1>2. /\ DatBlocks(d.body) <= DatBlocks(d.body + d.tail)
      /\ d.body \div BlockLen \in Nat
      /\ d.body \div BlockLen + DatBlocks(d.tail) <= DatBlocks(d.body + d.tail)
      /\ DatBlocks(d.body) \in Nat /\ DatBlocks(d.tail) \in Nat
      /\ DatBlocks(d.body + d.tail) \in Nat
  <2>1. d.body + d.tail \in Nat BY <1>1
  <2>2. DatBlocks(d.body) <= DatBlocks(d.body + d.tail) BY <1>1, BodyInSpan
  <2>3. /\ d.body \div BlockLen \in Nat
        /\ d.body \div BlockLen + DatBlocks(d.tail) <= DatBlocks(d.body + d.tail)
    BY <1>1, TailInSpan
  <2>4. DatBlocks(d.body) \in Nat /\ DatBlocks(d.tail) \in Nat BY <1>1, DatBlocksBounds
  <2>5. DatBlocks(d.body + d.tail) \in Nat BY <2>1, DatBlocksBounds
  <2> QED BY <2>2, <2>3, <2>4, <2>5
<1>3. BodyBlocks(d) \subseteq Span(d) BY <1>1, <1>2 DEF BodyBlocks, Span
<1>4. TailBlocks(d) \subseteq Span(d) BY <1>1, <1>2 DEF TailBlocks, Span
<1> QED BY <1>3, <1>4

LEMMA VisitsBounds ==
  ASSUME NEW d \in AnyData, NEW b
  PROVE  Visits(d, b) \in {0, 1, 2} /\ (b \notin Span(d) => Visits(d, b) = 0)
BY FieldsInSpan DEF Visits

LEMMA NoTailVisits ==
  ASSUME NEW d \in AnyData, d.tail = 0, NEW b
  PROVE  Visits(d, b) = IF b \in Span(d) THEN 1 ELSE 0
<1>1. d.at \in Nat /\ d.body \in Nat BY DEF AnyData
<1>2. DatBlocks(0) = 0
  <2>1. DatBlocks(0) \in Nat /\ BlockLen * DatBlocks(0) < BlockLen /\ BlockLen \in Nat \ {0}
    BY DatBlocksBounds, SmbAllocAssumption
  <2> QED BY <2>1, SMT
<1>3. d.body \div BlockLen \in Nat BY <1>1, TailInSpan
<1>4. TailBlocks(d) = {} BY <1>1, <1>2, <1>3 DEF TailBlocks
<1>5. BodyBlocks(d) = Span(d) BY <1>1 DEF BodyBlocks, Span
<1> QED BY <1>4, <1>5 DEF Visits

\* The body alone lies in the data of the message.
LEMMA BodyOnly ==
  ASSUME NEW d \in AnyData
  PROVE  LET e == [d EXCEPT !.tail = 0] IN
         e \in AnyData /\ \A b : b \notin Span(d) => Visits(e, b) = 0
<1> DEFINE e == [d EXCEPT !.tail = 0]
<1>1. /\ e \in AnyData /\ e.at = d.at /\ e.body = d.body /\ e.tail = 0
      /\ d.at \in Nat /\ d.body \in Nat /\ d.tail \in Nat
  BY DEF AnyData
<1>2. DatBlocks(d.body) <= DatBlocks(d.body + d.tail)
      /\ DatBlocks(d.body) \in Nat /\ DatBlocks(d.body + d.tail) \in Nat
  <2>1. d.body + d.tail \in Nat BY <1>1
  <2>2. DatBlocks(d.body) <= DatBlocks(d.body + d.tail) BY <1>1, BodyInSpan
  <2>3. DatBlocks(d.body) \in Nat BY <1>1, DatBlocksBounds
  <2>4. DatBlocks(d.body + d.tail) \in Nat BY <2>1, DatBlocksBounds
  <2> QED BY <2>2, <2>3, <2>4
<1>3. Span(e) \subseteq Span(d) BY <1>1, <1>2 DEF Span
<1> HIDE DEF e
<1>4. \A b : b \notin Span(d) => Visits(e, b) = 0 BY <1>1, <1>3, VisitsBounds
<1> QED BY <1>1, <1>4 DEF e

---------------------------------------------------------------------------
(* Tables *)

\* f is a file with n elements from p on set to v.
FillOf(f, S, file, p, n, v) ==
  /\ f \in Seq(S)
  /\ Len(f) = IF p + n > Len(file) THEN p + n ELSE Len(file)
  /\ \A i \in 1..Len(f) : f[i] = IF i \in p + 1 .. p + n THEN v ELSE file[i]

LEMMA FilledTable ==
  ASSUME NEW S, NEW file, file \in Seq(S), NEW p \in 0..Len(file), NEW n \in Nat, NEW v \in S
  PROVE  FillOf(Filled(file, p, n, v), S, file, p, n, v)
<1> DEFINE m == IF p + n > Len(file) THEN p + n ELSE Len(file)
           f == Filled(file, p, n, v)
<1>1. m \in Nat /\ Len(file) \in Nat OBVIOUS
<1>2. f = [i \in 1..m |-> IF i \in p + 1 .. p + n THEN v ELSE file[i]] BY DEF Filled
<1>3. \A i \in 1..m : i \notin p + 1 .. p + n => i \in 1..Len(file) BY <1>1
<1>4. f \in [1..m -> S] BY <1>2, <1>3
<1>5. f \in Seq(S) /\ Len(f) = m BY <1>1, <1>4
<1> QED BY <1>2, <1>5 DEF FillOf

\* What is found was free, or lies beyond the end of the file.
LEMMA FoundFree ==
  ASSUME NEW storage \in Storages \union {"SELFPACK"}, NEW table, Len(table) \in Nat,
         NEW n \in Nat, NEW p \in Nat, Found(storage, table, p, n)
  PROVE  /\ p <= Len(table)
         /\ \A i \in p + 1 .. p + n : i <= Len(table) => table[i] = 0
<1>1. FirstFit(table, p, n) \/ p = Len(table) BY SmbAllocAssumption DEF Found
<1>2. CASE p = Len(table) BY <1>2
<1>3. CASE Fits(table, p, n)
  <2>1. p + n <= Len(table) /\ \A i \in 1..n : table[p + i] = 0 BY <1>3 DEF Fits
  <2>2. ASSUME NEW i \in p + 1 .. p + n PROVE table[i] = 0
    <3>1. i - p \in 1..n /\ p + (i - p) = i OBVIOUS
    <3> QED BY <2>1, <3>1
  <2> QED BY <2>1, <2>2
<1> QED BY <1>1, <1>2, <1>3 DEF FirstFit

Counts == 0..MaxRefs

LEMMA FreedDatTable ==
  ASSUME NEW d \in AnyData, sda \in Seq(Counts)
  PROVE  /\ FreedDat(d) \in Seq(Counts) /\ Len(FreedDat(d)) = Len(sda)
         /\ \A i \in 1..Len(sda) : FreedDat(d)[i] =
              IF sda[i] > Visits(d, i - 1) THEN sda[i] - Visits(d, i - 1) ELSE 0
<1>1. DOMAIN sda = 1..Len(sda) /\ Len(sda) \in Nat OBVIOUS
<1>2. \A i \in 1..Len(sda) :
        (IF sda[i] > Visits(d, i - 1) THEN sda[i] - Visits(d, i - 1) ELSE 0) \in Counts
  <2> SUFFICES ASSUME NEW i \in 1..Len(sda), NEW v \in {0, 1, 2}, Visits(d, i - 1) = v
               PROVE  (IF sda[i] > v THEN sda[i] - v ELSE 0) \in Counts
    BY VisitsBounds
  <2>1. sda[i] \in Counts BY <1>1
  <2>2. MaxRefs \in Nat BY SmbAllocAssumption
  <2> QED BY <2>1, <2>2 DEF Counts
<1>3. FreedDat(d) \in [1..Len(sda) -> Counts] BY <1>1, <1>2 DEF FreedDat
<1> QED BY <1>1, <1>3 DEF FreedDat

LEMMA StoppedTable ==
  ASSUME NEW d \in AnyData, sda \in Seq(Counts), StoppedShort(d) \/ UNCHANGED sda
  PROVE  sda' \in Seq(0..MaxRefs) /\ Len(sda') = Len(sda)
<1> DEFINE e == [d EXCEPT !.tail = 0]
<1>1. e \in AnyData BY BodyOnly
<1>2. FreedDat(e) \in Seq(Counts) /\ Len(FreedDat(e)) = Len(sda) BY <1>1, FreedDatTable
<1>3. sda' = sda \/ sda' = FreedDat(e) BY DEF StoppedShort
<1> QED BY <1>2, <1>3 DEF Counts

LEMMA GivenBackTable ==
  ASSUME NEW d \in AnyData, sda \in Seq(Counts), GivenBack(d)
  PROVE  sda' \in Seq(0..MaxRefs) /\ Len(sda') = Len(sda)
<1>1. CASE sda' = FreedDat(d) BY <1>1, FreedDatTable DEF Counts
<1>2. CASE StoppedShort(d) BY <1>2, StoppedTable
<1> QED BY <1>1, <1>2 DEF GivenBack

LEMMA FreedAllTable ==
  ASSUME NEW d \in AnyData, sda \in Seq(Counts)
  PROVE  /\ FreedAll(d) \in Seq(Counts) /\ Len(FreedAll(d)) = Len(sda)
         /\ \A i \in 1..Len(sda) : FreedAll(d)[i] = IF Visits(d, i - 1) > 0 THEN 0 ELSE sda[i]
<1>1. DOMAIN sda = 1..Len(sda) /\ Len(sda) \in Nat OBVIOUS
<1>2. FreedAll(d) \in [1..Len(sda) -> Counts] BY <1>1, SmbAllocAssumption DEF FreedAll, Counts
<1> QED BY <1>1, <1>2 DEF FreedAll

LEMMA IncDatTable ==
  ASSUME NEW d \in AnyData, NEW refs \in Nat, sda \in Seq(Counts)
  PROVE  /\ IncDat(d, refs) \in Seq(Counts) /\ Len(IncDat(d, refs)) = Len(sda)
         /\ \A i \in 1..Len(sda) : sda[i] + refs * Visits(d, i - 1) <= MaxRefs =>
              IncDat(d, refs)[i] = sda[i] + refs * Visits(d, i - 1)
<1>1. DOMAIN sda = 1..Len(sda) /\ Len(sda) \in Nat OBVIOUS
<1>2. ASSUME NEW i \in 1..Len(sda), NEW v \in {0, 1, 2}, Visits(d, i - 1) = v
      PROVE  /\ (sda[i] + refs * v) % (MaxRefs + 1) \in Counts
             /\ sda[i] + refs * v <= MaxRefs => (sda[i] + refs * v) % (MaxRefs + 1) = sda[i] + refs * v
  <2>1. sda[i] \in Nat BY <1>1, SmbAllocAssumption DEF Counts
  <2>2. refs * v \in Nat OBVIOUS
  <2> DEFINE x == sda[i] + refs * v
  <2>3. x \in Nat /\ MaxRefs \in Nat \ {0} BY <2>1, <2>2, SmbAllocAssumption
  <2> HIDE DEF x
  <2>4. x % (MaxRefs + 1) \in Counts /\ (x <= MaxRefs => x % (MaxRefs + 1) = x)
    BY <2>3 DEF Counts
  <2> QED BY <2>4 DEF x
<1>3. IncDat(d, refs) \in [1..Len(sda) -> Counts] BY <1>1, <1>2, VisitsBounds DEF IncDat
<1> QED BY <1>1, <1>2, <1>3, VisitsBounds DEF IncDat

---------------------------------------------------------------------------
(* Types *)

\* The header of a message lies in the file: freeing it does not extend the table.
HeadersInFile == \A m \in live : m.at + m.blocks <= Len(sha)

TypeInv == TypeOK /\ scene \in Scenes /\ HeadersInFile

LEMMA DataTypes ==
  ASSUME TypeInv
  PROVE  /\ Data \subseteq AnyData
         /\ \A m \in live : m.data \in Data
         /\ \A x \in InProgress : x.data \in Data
<1>1. TailLens \subseteq Nat /\ BodyLens \subseteq Nat
  BY SmbAllocAssumption DEF TypeInv, TailLens
<1>2. Data \subseteq AnyData BY <1>1 DEF Data, AnyData
<1>3. \A x \in InProgress : x.data \in Data BY DEF TypeInv, TypeOK, InProgress
<1> QED BY <1>2, <1>3 DEF TypeInv, TypeOK

LEMMA TableTypes ==
  ASSUME TypeInv
  PROVE  /\ sda \in Seq(Counts) /\ sdt \in Seq(Texts) /\ Len(sda) = Len(sdt)
         /\ sha \in Seq({0, 1}) /\ shd \in Seq(Nums) /\ Len(sha) = Len(shd)
         /\ Len(sda) \in Nat /\ Len(sha) \in Nat
         /\ {0, 1} \subseteq Counts
BY SmbAllocAssumption DEF TypeInv, TypeOK, Counts

\* A run of n blocks from p on is found and filled in two tables side by side.
RunFilled(table, file, table2, file2, S, T, p, n, v) ==
  /\ table2 \in Seq(S) /\ file2 \in Seq(T) /\ Len(table2) = Len(file2)
  /\ Len(table2) \in Nat /\ Len(table2) >= Len(table) /\ Len(table2) >= p + n
  /\ \A b \in p .. p + n - 1 :
       /\ b \in 0..(Len(table2) - 1)
       /\ table2[b + 1] = 1 /\ file2[b + 1] = v
       /\ b < Len(table) => table[b + 1] = 0
  /\ \A b \in 0..(Len(table2) - 1) : b \notin p .. p + n - 1 =>
       b < Len(table) /\ table2[b + 1] = table[b + 1] /\ file2[b + 1] = file[b + 1]

LEMMA FoundAndFilled ==
  ASSUME NEW S, NEW T, NEW table, NEW file, NEW table2, NEW file2,
         table \in Seq(S), file \in Seq(T), Len(table) = Len(file), Len(table) \in Nat,
         NEW storage \in Storages \union {"SELFPACK"}, NEW n \in Nat, NEW p \in 0..Len(table),
         NEW v \in T, 1 \in S, Found(storage, table, p, n),
         table2 = Filled(table, p, n, 1), file2 = Filled(file, p, n, v)
  PROVE  RunFilled(table, file, table2, file2, S, T, p, n, v)
<1>1. \A i \in p + 1 .. p + n : i <= Len(table) => table[i] = 0
  <2>1. p \in Nat OBVIOUS
  <2> QED BY <2>1, FoundFree, Zenon
<1>2. /\ table2 \in Seq(S)
      /\ Len(table2) = IF p + n > Len(table) THEN p + n ELSE Len(table)
      /\ \A i \in 1..Len(table2) : table2[i] = IF i \in p + 1 .. p + n THEN 1 ELSE table[i]
  <2>1. FillOf(Filled(table, p, n, 1), S, table, p, n, 1) BY FilledTable, Zenon
  <2> QED BY <2>1, Zenon DEF FillOf
<1>3. /\ file2 \in Seq(T)
      /\ Len(file2) = IF p + n > Len(table) THEN p + n ELSE Len(table)
      /\ \A i \in 1..Len(file2) : file2[i] = IF i \in p + 1 .. p + n THEN v ELSE file[i]
  <2>1. p \in 0..Len(file) /\ Len(file) = Len(table) OBVIOUS
  <2>2. FillOf(Filled(file, p, n, v), T, file, p, n, v) BY <2>1, FilledTable, Zenon
  <2> QED BY <2>1, <2>2, Zenon DEF FillOf
<1>4. ASSUME NEW b \in p .. p + n - 1
      PROVE  /\ b \in 0..(Len(table2) - 1)
             /\ table2[b + 1] = 1 /\ file2[b + 1] = v
             /\ b < Len(table) => table[b + 1] = 0
  <2>1. b + 1 \in p + 1 .. p + n /\ b + 1 \in 1..Len(table2) /\ b + 1 \in 1..Len(file2)
    BY <1>2, <1>3
  <2> QED BY <1>1, <1>2, <1>3, <2>1
<1>5. ASSUME NEW b \in 0..(Len(table2) - 1), b \notin p .. p + n - 1
      PROVE  b < Len(table) /\ table2[b + 1] = table[b + 1] /\ file2[b + 1] = file[b + 1]
  <2>1. b + 1 \notin p + 1 .. p + n /\ b + 1 \in 1..Len(table2) /\ b + 1 \in 1..Len(file2)
    BY <1>2, <1>3, <1>5
  <2>2. b < Len(table) BY <1>2, <1>5
  <2> QED BY <1>2, <1>3, <2>1, <2>2
<1> QED BY <1>2, <1>3, <1>4, <1>5 DEF RunFilled

\* What storing a text does to the tables.
LEMMA StoreTable ==
  ASSUME TypeInv, NEW d \in NewData, NEW s \in Storages, StoreText(d, s)
  PROVE  /\ sda' \in Seq(Counts) /\ sdt' \in Seq(Texts) /\ Len(sda') = Len(sdt')
         /\ Len(sda') \in Nat /\ Len(sda') >= Len(sda)
         /\ d \in AnyData
         /\ \A b \in Span(d) :
              /\ b \in 0..(Len(sda') - 1) /\ sda'[b + 1] = 1 /\ sdt'[b + 1] = d.text
              /\ b < Len(sda) => sda[b + 1] = 0
         /\ \A b \in 0..(Len(sda') - 1) : b \notin Span(d) =>
              b < Len(sda) /\ sda'[b + 1] = sda[b + 1] /\ sdt'[b + 1] = sdt[b + 1]
<1> DEFINE n == DatBlocks(d.body + d.tail)
<1>1. d \in AnyData /\ d.text \in Texts /\ d.at \in 0..Len(sda)
  BY DataTypes DEF NewData, Data, AnyData
<1>2. n \in Nat
  <2>1. d.body + d.tail \in Nat BY <1>1 DEF AnyData
  <2> QED BY <2>1, DatBlocksBounds
<1>3. Span(d) = d.at .. d.at + n - 1 BY DEF Span
<1>4. CASE n = 0
  <2>1. Span(d) = {} BY <1>1, <1>3, <1>4, TableTypes
  <2>2. sda' = sda /\ sdt' = sdt BY <1>4 DEF StoreText
  <2> QED BY <1>1, <2>1, <2>2, TableTypes
<1>5. CASE n > 0
  <2>1. /\ Found(s, sda, d.at, n)
        /\ sda' = Filled(sda, d.at, n, 1)
        /\ sdt' = Filled(sdt, d.at, n, d.text)
    BY <1>2, <1>5 DEF StoreText
  <2> HIDE DEF n
  <2>2. 1 \in Counts /\ s \in Storages \union {"SELFPACK"} BY TableTypes
  <2>3. RunFilled(sda, sdt, sda', sdt', Counts, Texts, d.at, n, d.text)
    BY <1>1, <1>2, <2>1, <2>2, TableTypes, FoundAndFilled, Zenon
  <2> QED BY <1>1, <1>3, <2>3 DEF RunFilled
<1> QED BY <1>2, <1>4, <1>5

\* What freeing one does.
LEMMA HeaderFreed ==
  ASSUME TypeInv, NEW m \in live
  PROVE  /\ FreedHdr(m) \in Seq({0, 1}) /\ Len(FreedHdr(m)) = Len(sha)
         /\ \A b \in 0..(Len(sha) - 1) : b \notin m.at .. m.at + m.blocks - 1 =>
              FreedHdr(m)[b + 1] = sha[b + 1]
<1>1. /\ m.blocks \in Nat /\ m.at \in 0..Len(sha) /\ 0 \in {0, 1}
      /\ sha \in Seq({0, 1}) /\ Len(sha) \in Nat
  <2>1. m.blocks \in Nat /\ m.at \in Nat BY SmbAllocAssumption DEF TypeInv, TypeOK
  <2>2. m.at + m.blocks <= Len(sha) BY DEF TypeInv, HeadersInFile
  <2> QED BY <2>1, <2>2, TableTypes
<1>2. FillOf(FreedHdr(m), {0, 1}, sha, m.at, m.blocks, 0)
  BY <1>1, FilledTable, Zenon DEF FreedHdr
<1>3. /\ FreedHdr(m) \in Seq({0, 1}) /\ Len(FreedHdr(m)) = Len(sha)
      /\ \A i \in 1..Len(FreedHdr(m)) :
           FreedHdr(m)[i] = IF i \in m.at + 1 .. m.at + m.blocks THEN 0 ELSE sha[i]
  BY <1>1, <1>2 DEF FillOf, TypeInv, HeadersInFile
<1>4. ASSUME NEW b \in 0..(Len(sha) - 1), b \notin m.at .. m.at + m.blocks - 1
      PROVE  FreedHdr(m)[b + 1] = sha[b + 1]
  <2>1. b + 1 \notin m.at + 1 .. m.at + m.blocks /\ b + 1 \in 1..Len(FreedHdr(m))
    BY <1>1, <1>3, <1>4
  <2> QED BY <1>3, <2>1
<1> QED BY <1>3, <1>4

\* What adding a header does to its tables.
LEMMA HeaderTable ==
  ASSUME TypeInv, NEW storage \in Storages \union {"SELFPACK"}, NEW num \in Nums,
         NEW n \in HdrLens, NEW p \in 0..Len(sha), Found(storage, sha, p, n),
         sha' = Filled(sha, p, n, 1), shd' = Filled(shd, p, n, num)
  PROVE  n \in Nat /\ RunFilled(sha, shd, sha', shd', {0, 1}, Nums, p, n, num)
<1>1. n \in Nat BY SmbAllocAssumption
<1>2. 1 \in {0, 1} OBVIOUS
<1> QED BY <1>1, <1>2, TableTypes, FoundAndFilled, Zenon

LEMMA HeaderAdded ==
  ASSUME TypeInv, NEW d \in Data, NEW storage \in Storages \union {"SELFPACK"},
         NEW num \in Nums, NEW n \in HdrLens, NEW p \in 0..Len(sha),
         AddHeader(d, storage, num, p, n), UNCHANGED scene
  PROVE  /\ sha' \in Seq({0, 1}) /\ shd' \in Seq(Nums) /\ Len(sha') = Len(shd')
         /\ live' \subseteq [num : Nums, data : Data', at : Nat, blocks : HdrLens]
         /\ HeadersInFile'
<1>1. /\ Found(storage, sha, p, n) /\ sha' = Filled(sha, p, n, 1) /\ shd' = Filled(shd, p, n, num)
      /\ live' = live \union {[num |-> num, data |-> d, at |-> p, blocks |-> n]}
  BY DEF AddHeader
<1>2. Data' = Data BY DEF Data, TailLens
<1>3. live' \subseteq [num : Nums, data : Data', at : Nat, blocks : HdrLens]
  BY <1>1, <1>2, TableTypes DEF TypeInv, TypeOK
<1>4. RunFilled(sha, shd, sha', shd', {0, 1}, Nums, p, n, num) BY <1>1, HeaderTable, Zenon
<1>5. HeadersInFile'
  <2>1. \A m \in live : m.at \in Nat /\ m.blocks \in Nat /\ m.at + m.blocks <= Len(sha)
    BY SmbAllocAssumption DEF TypeInv, TypeOK, HeadersInFile
  <2>2. Len(sha') >= Len(sha) /\ Len(sha') >= p + n /\ Len(sha') \in Nat /\ Len(sha) \in Nat
    BY <1>4, TableTypes DEF RunFilled
  <2>3. p \in Nat /\ n \in Nat BY SmbAllocAssumption, TableTypes
  <2> QED BY <1>1, <2>1, <2>2, <2>3 DEF HeadersInFile
<1> QED BY <1>3, <1>4, <1>5 DEF RunFilled

\* A header given up half-way leaves the tables well formed.
LEMMA AbandonedTable ==
  ASSUME TypeInv, NEW storage \in Storages \union {"SELFPACK"},
         UNCHANGED <<sha, shd>> \/ HeaderAbandoned(storage), UNCHANGED live
  PROVE  /\ sha' \in Seq({0, 1}) /\ shd' \in Seq(Nums) /\ Len(sha') = Len(shd')
         /\ HeadersInFile'
<1>1. ASSUME NEW n \in HdrLens, NEW p \in 0..Len(sha), NEW num \in Nums,
             Found(storage, sha, p, n),
             sha' = Filled(sha, p, n, 1), shd' = Filled(shd, p, n, num)
      PROVE  /\ sha' \in Seq({0, 1}) /\ shd' \in Seq(Nums) /\ Len(sha') = Len(shd')
             /\ Len(sha') \in Nat /\ Len(sha') >= Len(sha)
  <2>1. RunFilled(sha, shd, sha', shd', {0, 1}, Nums, p, n, num)
    BY <1>1, HeaderTable, Zenon
  <2> QED BY <2>1 DEF RunFilled
<1>2. /\ sha' \in Seq({0, 1}) /\ shd' \in Seq(Nums) /\ Len(sha') = Len(shd')
      /\ Len(sha') \in Nat /\ Len(sha') >= Len(sha) /\ Len(sha) \in Nat
  BY <1>1, TableTypes DEF HeaderAbandoned
<1>3. \A m \in live : m.at \in Nat /\ m.blocks \in Nat /\ m.at + m.blocks <= Len(sha)
  BY SmbAllocAssumption DEF TypeInv, TypeOK, HeadersInFile
<1> QED BY <1>2, <1>3 DEF HeadersInFile

LEMMA TypeInit == Init => TypeInv
BY SmbAllocAssumption DEF Init, TypeInv, TypeOK, HeadersInFile, Data, TailLens

LEMMA TypeStep == TypeInv /\ [Next]_vars => TypeInv'
<1> SUFFICES ASSUME TypeInv, [Next]_vars PROVE TypeInv' OBVIOUS
<1> USE DEF TypeInv, TypeOK
<1>0. /\ UNCHANGED scene => Data' = Data
      /\ UNCHANGED <<sha, live>> => HeadersInFile'
  BY DEF Data, TailLens, HeadersInFile
<1>a. Counts = 0..MaxRefs /\ 0 \in 0..MaxSent BY SmbAllocAssumption DEF Counts
<1>b. NewData \subseteq Data BY DEF NewData, Data
<1>1. ASSUME NEW d \in NewData, NEW s \in Storages, PostData(d, s) PROVE TypeInv'
  BY <1>0, <1>a, <1>b, <1>1, StoreTable DEF PostData
<1>2. ASSUME NEW d \in NewData, NEW s \in Storages, BulkData(d, s) PROVE TypeInv'
  BY <1>0, <1>a, <1>b, <1>2, StoreTable DEF BulkData
<1>3. ASSUME NEW num \in Nums, NEW n \in HdrLens, NEW p \in 0..Len(sha), PostHeader(num, p, n)
      PROVE  TypeInv'
  BY <1>0, <1>3, HeaderAdded DEF PostHeader
<1>4. ASSUME NEW num \in Nums, NEW n \in HdrLens, NEW p \in 0..Len(sha), BulkHeader(num, p, n)
      PROVE  TypeInv'
  <2>1. bulk.sent + 1 \in 0..MaxSent BY <1>4, SmbAllocAssumption DEF BulkHeader
  <2> QED BY <1>0, <1>4, <2>1, HeaderAdded DEF BulkHeader
<1>5. ASSUME NEW num \in Nums, NEW n \in HdrLens, NEW p \in 0..Len(sha), ForwardHeader(num, p, n)
      PROVE  TypeInv'
  BY <1>0, <1>5, HeaderAdded DEF ForwardHeader
<1>6. CASE PostHeaderFails
  <2>1. /\ sda' \in Seq(0..MaxRefs) /\ Len(sda') = Len(sda)
    BY <1>a, <1>6, DataTypes, GivenBackTable DEF PostHeaderFails
  <2> QED BY <1>0, <1>6, <2>1 DEF PostHeaderFails
<1>7. CASE PostTextFails
  <2> DEFINE e == [pend.data EXCEPT !.tail = 0]
  <2>0. e \in AnyData BY <1>7, DataTypes, BodyOnly DEF PostTextFails
  <2>1. /\ sda' \in Seq(0..MaxRefs) /\ Len(sda') = Len(sda)
    BY <1>a, <1>7, <2>0, GivenBackTable DEF PostTextFails
  <2> QED BY <1>0, <1>7, <2>1 DEF PostTextFails
<1>8. CASE PostCrash
  <2>1. /\ pend.storage \in Storages \union {"SELFPACK"} /\ UNCHANGED live
        /\ UNCHANGED <<sha, shd>> \/ HeaderAbandoned(pend.storage)
    BY <1>8 DEF PostCrash
  <2>2. /\ sha' \in Seq({0, 1}) /\ shd' \in Seq(Nums) /\ Len(sha') = Len(shd')
        /\ HeadersInFile'
    BY <2>1, AbandonedTable
  <2> QED BY <1>0, <1>8, <2>2 DEF PostCrash
<1>9. CASE BulkNoUser
  <2>1. bulk.sent + 1 \in 0..MaxSent BY <1>9, SmbAllocAssumption DEF BulkNoUser
  <2> QED BY <1>0, <1>9, <2>1 DEF BulkNoUser
<1>10. CASE BulkEnd
  BY <1>0, <1>a, <1>10, DataTypes, FreedAllTable, IncDatTable DEF BulkEnd
<1>11. ASSUME NEW m \in live, ForwardLoad(m) PROVE TypeInv'
  BY <1>0, <1>11 DEF ForwardLoad
<1>12. ASSUME NEW m \in live, Purge(m) PROVE TypeInv'
  <2>1. FreedDat(m.data) \in Seq(Counts) /\ Len(FreedDat(m.data)) = Len(sda)
    BY <1>a, DataTypes, FreedDatTable
  <2>2. sha' \in Seq({0, 1}) /\ Len(sha') = Len(sha) BY <1>12, HeaderFreed DEF Purge
  <2>3. HeadersInFile' BY <1>12, <2>2 DEF Purge, HeadersInFile
  <2>4. sda' \in Seq(0..MaxRefs) /\ Len(sda') = Len(sdt')
    BY <1>a, <1>12, <2>1 DEF Purge
  <2>5. history' \in [short : SUBSET Data, spoiled : BOOLEAN, stray : 0..MaxStray]
    BY <1>12 DEF Purge
  <2> QED BY <1>0, <1>12, <2>2, <2>3, <2>4, <2>5 DEF Purge
<1>13. CASE ForwardInc
  BY <1>0, <1>a, <1>13, DataTypes, IncDatTable DEF ForwardInc
<1>14. CASE ForwardFails
  BY <1>0, <1>a, <1>14, DataTypes, FreedDatTable DEF ForwardFails
<1>15. CASE BulkOpenFails \/ BulkCrash
  <2>1. /\ bulk # None /\ bulk' = None /\ UNCHANGED <<sda, sdt, live, pend, fwd, scene>>
        /\ history' = IF bulk.sent > 1 THEN [history EXCEPT !.short = @ \union {bulk.data}]
                                      ELSE history
    BY <1>15 DEF BulkOpenFails, BulkCrash, BulkUncounted
  <2>2. UNCHANGED <<sha, shd>> \/ HeaderAbandoned("SELFPACK")
    BY <1>15 DEF BulkOpenFails, BulkCrash
  <2>3. /\ sha' \in Seq({0, 1}) /\ shd' \in Seq(Nums) /\ Len(sha') = Len(shd')
        /\ HeadersInFile'
    BY <2>1, <2>2, AbandonedTable
  <2>4. bulk.data \in Data BY <2>1
  <2>5. history' \in [short : SUBSET Data, spoiled : BOOLEAN, stray : 0..MaxStray]
    BY <2>1, <2>4
  <2> QED BY <1>0, <2>1, <2>3, <2>5
<1>16. CASE ForwardOpenFails
  BY <1>0, <1>16 DEF ForwardOpenFails
<1>17. CASE ForwardLost
  <2>1. /\ fwd' = None /\ UNCHANGED <<sdt, live, pend, bulk, scene>>
        /\ history' = [history EXCEPT !.stray = @ + 1] /\ history.stray < MaxStray
        /\ UNCHANGED <<sha, shd>> \/ HeaderAbandoned("SELFPACK")
    BY <1>17 DEF ForwardLost
  <2>a. /\ sda' \in Seq(0..MaxRefs) /\ Len(sda') = Len(sda)
    BY <1>a, <1>17, DataTypes, StoppedTable DEF ForwardLost
  <2>2. /\ sha' \in Seq({0, 1}) /\ shd' \in Seq(Nums) /\ Len(sha') = Len(shd')
        /\ HeadersInFile'
    BY <2>1, AbandonedTable
  <2>3. history.stray + 1 \in 0..MaxStray BY <2>1, SmbAllocAssumption
  <2>4. history' \in [short : SUBSET Data, spoiled : BOOLEAN, stray : 0..MaxStray]
    BY <2>1, <2>3
  <2> QED BY <1>0, <2>1, <2>a, <2>2, <2>4
<1>18. CASE UNCHANGED vars
  BY <1>0, <1>18 DEF vars
<1> QED
  BY <1>1, <1>2, <1>3, <1>4, <1>5, <1>6, <1>7, <1>8, <1>9, <1>10, <1>11, <1>12, <1>13,
     <1>14, <1>15, <1>16, <1>17, <1>18 DEF Next

\* The types of the tables and of what is under way, for every use of a base: no
\* count leaves its 16 bits, and freeing a header does not extend its table.
THEOREM TypeCorrect == Spec => []TypeOK
<1>1. TypeInv => TypeOK BY DEF TypeInv
<1> QED BY <1>1, TypeInit, TypeStep, PTL DEF Spec

---------------------------------------------------------------------------
(* How many headers refer to a block *)

LEMMA UsersFinite ==
  ASSUME IsFiniteSet(live), NEW b
  PROVE  IsFiniteSet(Users(b)) /\ Cardinality(Users(b)) \in Nat
<1>1. Users(b) \in SUBSET live BY DEF Users
<1>2. IsFiniteSet(Users(b)) BY <1>1, FS_Subset
<1> QED BY <1>2, FS_CardinalityType

LEMMA UsersAdd ==
  ASSUME IsFiniteSet(live), NEW m, m \notin live, live' = live \union {m}, NEW b
  PROVE  /\ b \in Span(m.data) => Cardinality(Users(b)') = Cardinality(Users(b)) + 1
         /\ b \notin Span(m.data) => Users(b)' = Users(b)
<1>1. CASE b \notin Span(m.data) BY <1>1 DEF Users
<1>2. CASE b \in Span(m.data)
  <2>1. Users(b)' = Users(b) \union {m} BY <1>2 DEF Users
  <2>2. m \notin Users(b) BY DEF Users
  <2>3. Cardinality(Users(b) \union {m}) = Cardinality(Users(b)) + 1
    BY <2>2, UsersFinite, FS_AddElement
  <2> QED BY <1>2, <2>1, <2>3
<1> QED BY <1>1, <1>2

LEMMA UsersRemove ==
  ASSUME IsFiniteSet(live), NEW m \in live, live' = live \ {m}, NEW b
  PROVE  /\ b \in Span(m.data) => Cardinality(Users(b)') = Cardinality(Users(b)) - 1
         /\ b \notin Span(m.data) => Users(b)' = Users(b)
<1>1. CASE b \notin Span(m.data) BY <1>1 DEF Users
<1>2. CASE b \in Span(m.data)
  <2>1. Users(b)' = Users(b) \ {m} BY <1>2 DEF Users
  <2>2. m \in Users(b) BY <1>2 DEF Users
  <2>3. Cardinality(Users(b) \ {m}) = Cardinality(Users(b)) - 1
    BY <2>2, UsersFinite, FS_RemoveElement
  <2> QED BY <1>2, <2>1, <2>3
<1> QED BY <1>1, <1>2

\* No more than there are numbers.
LEMMA UsersBound ==
  ASSUME TypeInv, HeaderInv, IsFiniteSet(Nums), NEW b
  PROVE  Cardinality(Users(b)) <= Cardinality(Nums)
<1> DEFINE f == [m \in Users(b) |-> m.num]
<1>1. \A m \in Users(b) : m \in live /\ m.num \in Nums BY DEF Users, TypeInv, TypeOK
<1>2. f \in [Users(b) -> Nums] BY <1>1
<1>3. \A m, k \in Users(b) : f[m] = f[k] => m = k BY <1>1 DEF HeaderInv
<1>4. f \in Injection(Users(b), Nums) BY <1>2, <1>3 DEF Injection, IsInjective
<1> QED BY <1>4, FS_Injection

LEMMA CountedType == ASSUME NEW b PROVE Counted(b) \in {0, 1}
BY DEF Counted

LEMMA SlackType ==
  ASSUME TypeInv, NEW b
  PROVE  /\ history.stray \in 0..MaxStray /\ MaxSent \in Nat /\ MaxStray \in Nat
         /\ Slack(b) \in 0..(MaxSent + MaxStray)
<1>1. history.stray \in 0..MaxStray /\ MaxSent \in Nat /\ MaxStray \in Nat
  BY SmbAllocAssumption DEF TypeInv, TypeOK
<1> QED BY <1>1 DEF Slack

---------------------------------------------------------------------------
(* The blocks of different data *)

LEMMA InUse ==
  /\ \A m \in live : m.data \in DataInUse
  /\ \A x \in {pend, bulk, fwd} : x # None => x.data \in DataInUse
  /\ \A d \in DataInUse :
       \/ \E m \in live : d = m.data
       \/ \E x \in {pend, bulk, fwd} : x # None /\ d = x.data
BY DEF DataInUse, Reserved, InProgress

LEMMA InUseTypes == TypeInv => DataInUse \subseteq AnyData
BY DataTypes DEF DataInUse, Reserved

\* Data of different texts has no block in common.
LEMMA Apart ==
  ASSUME DataInv, NEW d \in DataInUse, NEW e \in DataInUse, NEW b \in Span(d), b \in Span(e)
  PROVE  d = e
BY DEF DataInv, TextsStored, TextsDistinct, Stored

LEMMA PendApart ==
  ASSUME DataInv, pend # None, NEW b \in Span(pend.data)
  PROVE  /\ Users(b) = {}
         /\ ~Uses(bulk, b) /\ ~Uses(fwd, b)
<1>1. \A m \in live : b \notin Span(m.data)
  BY Apart, InUse DEF DataInv, PendFresh
<1>2. \A x \in {bulk, fwd} : x # None => b \notin Span(x.data)
  BY Apart, InUse DEF DataInv, PendFresh
<1> QED BY <1>1, <1>2 DEF Users, Uses

AllocInv == TypeInv /\ DataInv /\ HeaderInv /\ CountInv /\ ExactInv

LEMMA DueType ==
  ASSUME TypeInv, HeaderInv, NEW b
  PROVE  Due(b) \in Int /\ Cardinality(Users(b)) \in Nat /\ Counted(b) \in {0, 1}
<1>1. bulk # None => bulk.sent \in Nat BY SmbAllocAssumption DEF TypeInv, TypeOK
<1>2. Cardinality(Users(b)) \in Nat BY UsersFinite DEF HeaderInv
<1> QED BY <1>1, <1>2, CountedType DEF Due, Uses

---------------------------------------------------------------------------
(* A new text *)

LEMMA SomethingUnderWay ==
  ASSUME NEW d \in AnyData
  PROVE  /\ \A s \in Storages : [data |-> d, storage |-> s] # None
         /\ \A n \in 0..MaxSent : [data |-> d, sent |-> n] # None
         /\ \A c \in BOOLEAN : [data |-> d, counted |-> c] # None
BY SmbAllocAssumption DEF AnyData

\* Nothing has a block that was found free.
LEMMA NewApart ==
  ASSUME AllocInv, NEW d \in NewData, NEW s \in Storages, StoreText(d, s),
         NEW e \in DataInUse, NEW b \in Span(e)
  PROVE  b \notin Span(d) /\ b \in 0..(Len(sda') - 1)
         /\ sda'[b + 1] = sda[b + 1] /\ sdt'[b + 1] = sdt[b + 1]
<1>1. b < Len(sda) BY DEF AllocInv, DataInv, TextsStored, Stored
<1>2. b \in Nat BY InUseTypes DEF AllocInv, Span, AnyData
<1>3. sda[b + 1] >= 1 BY DEF AllocInv, CountInv, Enough
<1>4. b \notin Span(d) BY <1>1, <1>3, StoreTable DEF AllocInv
<1>5. b \in 0..(Len(sda') - 1)
  BY <1>1, <1>2, StoreTable, TableTypes DEF AllocInv
<1> QED BY <1>4, <1>5, StoreTable DEF AllocInv

LEMMA NewText ==
  ASSUME AllocInv, NEW d \in NewData, NEW s \in Storages, StoreText(d, s), BaseFree,
         UNCHANGED <<live, fwd, scene, history>>,
         \/ pend' = [data |-> d, storage |-> s] /\ UNCHANGED bulk
         \/ bulk = None /\ bulk' = [data |-> d, sent |-> 0] /\ UNCHANGED pend
  PROVE  (DataInv /\ CountInv /\ ExactInv)'
<1> USE DEF AllocInv
<1>1. d \in AnyData BY StoreTable
<1>2. 0 \in 0..MaxSent /\ MaxSent \in Nat BY SmbAllocAssumption
<1>3. pend = None BY DEF BaseFree
<1>4. \/ /\ pend' = [data |-> d, storage |-> s] /\ pend' # None /\ pend'.data = d /\ bulk' = bulk
      \/ /\ bulk = None /\ bulk' = [data |-> d, sent |-> 0] /\ bulk' # None
         /\ bulk'.data = d /\ bulk'.sent = 0 /\ pend' = pend
  BY <1>1, <1>2, SomethingUnderWay
<1>5. DataInUse' = DataInUse \union {d}
  BY <1>3, <1>4 DEF DataInUse, Reserved, InProgress
<1>6. \A e \in DataInUse : e.text # d.text
  BY <1>3, InUse DEF StoreText, TextInUse
<1>7. DataInv'
  <2>1. ASSUME NEW e \in DataInUse PROVE Stored(e)'
    BY NewApart DEF Stored, DataInv, TextsStored
  <2>2. Stored(d)' BY StoreTable DEF Stored
  <2>3. TextsStored' BY <1>5, <2>1, <2>2 DEF TextsStored
  <2>4. TextsDistinct' BY <1>5, <1>6 DEF TextsDistinct, DataInv
  <2>5. PendFresh' BY <1>3, <1>4, <1>6, InUse DEF PendFresh, DataInv
  <2>6. BulkFresh' BY <1>4, <1>6, InUse DEF BulkFresh, DataInv
  <2> QED BY <2>3, <2>4, <2>5, <2>6 DEF DataInv
<1>8. \A b : Users(b)' = Users(b) /\ Counted(b)' = Counted(b) BY DEF Users, Counted, Uses
<1>9. ASSUME NEW b \in Span(d)
      PROVE  /\ Users(b) = {} /\ Counted(b) = 0 /\ Due(b)' = 1
             /\ Cardinality(Users(b)) = 0
  <2>1. \A e \in DataInUse : b \notin Span(e) BY NewApart
  <2>2. Users(b) = {} BY <2>1, InUse DEF Users
  <2>3. ~Uses(fwd, b) /\ ~Uses(bulk, b) /\ ~Uses(pend, b) BY <2>1, InUse DEF Uses
  <2>4. Cardinality(Users(b)) = 0 BY <2>2, FS_EmptySet
  <2>5. Due(b)' = 1 BY <1>4, <1>8, <2>3, <2>4 DEF Due, Uses, Counted
  <2> QED BY <2>2, <2>3, <2>4, <2>5 DEF Counted
<1>10. ASSUME NEW b, b \notin Span(d)
       PROVE  Due(b)' = Due(b) /\ (Uses(bulk, b)' <=> Uses(bulk, b))
  BY <1>3, <1>4, <1>8, <1>10 DEF Due, Uses
<1>11. CountInv'
  <2>1. ASSUME NEW e \in DataInUse, NEW b \in Span(e) PROVE (Enough(e, b) /\ Limited(e, b))'
    <3>1. Enough(e, b) /\ Limited(e, b) BY DEF CountInv
    <3>2. sda'[b + 1] = sda[b + 1] /\ b \notin Span(d) BY NewApart
    <3> QED BY <1>8, <1>10, <3>1, <3>2 DEF Enough, Limited, Slack
  <2>2. ASSUME NEW b \in Span(d) PROVE (Enough(d, b) /\ Limited(d, b))'
    <3>1. sda'[b + 1] = 1 BY StoreTable
    <3>2. Visits(d, b) \in {0, 1, 2} BY <1>1, VisitsBounds
    <3>3. Slack(b)' \in Nat BY SlackType DEF Slack
    <3> QED BY <1>2, <1>8, <1>9, <3>1, <3>2, <3>3 DEF Enough, Limited
  <2> QED BY <1>5, <2>1, <2>2 DEF CountInv
<1>12. ExactInv'
  <2> SUFFICES ASSUME Simple', NEW b \in 0..(Len(sda') - 1) PROVE sda'[b + 1] = Due(b)'
    BY DEF ExactInv
  <2>1. Simple BY DEF Simple, TailLens, Faults
  <2>2. CASE b \in Span(d) BY <1>9, <2>2, StoreTable
  <2>3. CASE b \notin Span(d)
    <3>1. b \in 0..(Len(sda) - 1) /\ sda'[b + 1] = sda[b + 1]
      BY <2>3, StoreTable, TableTypes
    <3> QED BY <1>10, <2>1, <2>3, <3>1 DEF ExactInv
  <2> QED BY <2>2, <2>3
<1> QED BY <1>7, <1>11, <1>12

---------------------------------------------------------------------------
(* A header added, whose data is that of what is under way *)

LEMMA AddHeaderKeepsHeaders ==
  ASSUME TypeInv, HeaderInv, NEW d \in Data, NEW storage \in Storages \union {"SELFPACK"},
         NEW num \in Nums, NEW n \in HdrLens, NEW p \in 0..Len(sha),
         AddHeader(d, storage, num, p, n)
  PROVE  HeaderInv'
<1> USE DEF HeaderInv
<1> DEFINE new == [num |-> num, data |-> d, at |-> p, blocks |-> n]
<1>1. /\ num \notin {m.num : m \in live} /\ live' = live \union {new}
      /\ RunFilled(sha, shd, sha', shd', {0, 1}, Nums, p, n, num)
  <2>1. /\ Found(storage, sha, p, n) /\ sha' = Filled(sha, p, n, 1) /\ shd' = Filled(shd, p, n, num)
        /\ num \notin {m.num : m \in live} /\ live' = live \union {new}
    BY DEF AddHeader
  <2> QED BY <2>1, HeaderTable, Zenon
<1>2. IsFiniteSet(live') BY <1>1, FS_AddElement
<1>3. \A m, k \in live' : m.num = k.num => m = k BY <1>1
<1>4. Placed(new)' BY <1>1 DEF Placed, RunFilled
<1>5. ASSUME NEW m \in live PROVE Placed(m)'
  <2>1. m.at \in Nat /\ m.blocks \in Nat /\ m.at + m.blocks <= Len(sha)
    BY SmbAllocAssumption DEF TypeInv, TypeOK, HeadersInFile
  <2>2. ASSUME NEW b \in m.at .. m.at + m.blocks - 1
        PROVE  shd'[b + 1] = m.num /\ sha'[b + 1] = 1
    <3>1. shd[b + 1] = m.num /\ sha[b + 1] = 1 BY DEF Placed
    <3>2. b \in 0..(Len(sha) - 1) BY <2>1, TableTypes
    <3>3. b \notin p .. p + n - 1 BY <1>1, <3>1, <3>2 DEF RunFilled
    <3>4. b \in 0..(Len(sha') - 1) BY <1>1, <3>2, TableTypes DEF RunFilled
    <3> QED BY <1>1, <3>1, <3>3, <3>4 DEF RunFilled
  <2> QED BY <2>2 DEF Placed
<1> QED BY <1>1, <1>2, <1>3, <1>4, <1>5

LEMMA AddHeaderCounts ==
  ASSUME AllocInv, NEW x \in {pend, bulk, fwd}, x # None, NEW m, m \notin live, m.data = x.data,
         live' = live \union {m}, UNCHANGED <<sda, sdt, scene, history>>,
         DataInUse' \subseteq DataInUse,
         \A b : Due(b)' = Due(b),
         \A b : /\ Counted(b)' \in {0, Counted(b)} /\ (Uses(bulk, b)' <=> Uses(bulk, b))
                /\ Cardinality(Users(b)') + Counted(b)' \in Nat
                /\ Cardinality(Users(b)) + Counted(b) \in Nat
                /\ Cardinality(Users(b)') + Counted(b)' >= Cardinality(Users(b)) + Counted(b)
  PROVE  (CountInv /\ ExactInv)'
<1> USE DEF AllocInv
<1>1. ASSUME NEW d \in DataInUse, NEW b \in Span(d) PROVE (Enough(d, b) /\ Limited(d, b))'
  <2>1. Enough(d, b) /\ Limited(d, b) BY DEF CountInv
  <2>2. Enough(d, b)' BY <2>1 DEF Enough
  <2>3. Limited(d, b)'
    <3> DEFINE k == Slack(b)
               n == Cardinality(Users(b)) + Counted(b)
               o == Cardinality(Users(b)') + Counted(b)'
    <3>0. Slack(b)' = k BY DEF Slack
    <3>1. Visits(d, b) \in {0, 1, 2} BY InUseTypes, VisitsBounds
    <3>2. k \in Nat /\ n \in Nat /\ o \in Nat /\ o >= n BY SlackType
    <3>3. sda[b + 1] <= 1 + Visits(d, b) * (n + k) BY <2>1 DEF Limited
    <3>4. sda[b + 1] \in Nat
      <4>1. b \in 0..(Len(sda) - 1)
        BY InUseTypes DEF DataInv, TextsStored, Stored, Span, AnyData
      <4> QED BY <4>1, TableTypes, SmbAllocAssumption DEF Counts
    <3> HIDE DEF k, n, o
    <3>5. sda[b + 1] <= 1 + Visits(d, b) * (o + k) BY <3>1, <3>2, <3>3, <3>4
    <3> QED BY <3>0, <3>5 DEF Limited, o
  <2> QED BY <2>2, <2>3
<1>2. CountInv' BY <1>1 DEF CountInv
<1>3. ExactInv' BY DEF ExactInv, Simple, TailLens, Faults
<1> QED BY <1>2, <1>3

LEMMA HeaderNew ==
  ASSUME HeaderInv, NEW d, NEW storage, NEW num, NEW n, NEW p, AddHeader(d, storage, num, p, n)
  PROVE  LET new == [num |-> num, data |-> d, at |-> p, blocks |-> n] IN
         /\ new \notin live /\ new.data = d /\ live' = live \union {new}
         /\ \A b : /\ b \in Span(d) => Cardinality(Users(b)') = Cardinality(Users(b)) + 1
                   /\ b \notin Span(d) => Cardinality(Users(b)') = Cardinality(Users(b))
                   /\ Cardinality(Users(b)) \in Nat
<1> DEFINE new == [num |-> num, data |-> d, at |-> p, blocks |-> n]
<1>1. num \notin {m.num : m \in live} /\ live' = live \union {new} BY DEF AddHeader
<1>2. new \notin live BY <1>1
<1>3. new.data = d OBVIOUS
<1> HIDE DEF new
<1> QED BY <1>1, <1>2, <1>3, UsersAdd, UsersFinite DEF HeaderInv, new

LEMMA PostHeaderStep ==
  ASSUME AllocInv, NEW num \in Nums, NEW n \in HdrLens, NEW p \in 0..Len(sha),
         PostHeader(num, p, n)
  PROVE  (DataInv /\ HeaderInv /\ CountInv /\ ExactInv)'
<1> USE DEF AllocInv
<1> DEFINE new == [num |-> num, data |-> pend.data, at |-> p, blocks |-> n]
<1>1. /\ pend # None /\ pend' = None /\ UNCHANGED <<sda, sdt, bulk, fwd, scene, history>>
      /\ AddHeader(pend.data, pend.storage, num, p, n)
  BY DEF PostHeader
<1>2. pend.data \in Data /\ pend.storage \in Storages BY <1>1 DEF TypeInv, TypeOK
<1>3. HeaderInv' BY <1>1, <1>2, AddHeaderKeepsHeaders
<1>4. /\ new \notin live /\ new.data = pend.data /\ live' = live \union {new}
      /\ \A b : /\ b \in Span(pend.data) => Cardinality(Users(b)') = Cardinality(Users(b)) + 1
                /\ b \notin Span(pend.data) => Cardinality(Users(b)') = Cardinality(Users(b))
                /\ Cardinality(Users(b)) \in Nat
  BY <1>1, HeaderNew
<1> HIDE DEF new
<1>5. DataInUse' = DataInUse
  BY <1>1, <1>4 DEF DataInUse, Reserved, InProgress
<1>6. DataInv'
  <2>1. TextsStored' /\ TextsDistinct'
    BY <1>1, <1>5 DEF DataInv, TextsStored, TextsDistinct, Stored
  <2>2. PendFresh' BY <1>1 DEF PendFresh
  <2>3. BulkFresh' BY <1>1, <1>4 DEF DataInv, BulkFresh, PendFresh
  <2> QED BY <2>1, <2>2, <2>3 DEF DataInv
<1>7. \A b : Counted(b)' = Counted(b) /\ (Uses(bulk, b)' <=> Uses(bulk, b))
  BY <1>1 DEF Counted, Uses
<1>8. \A b : Due(b)' = Due(b)
  <2> TAKE b
  <2>1. Due(b) \in Int BY DueType
  <2>2. CASE b \in Span(pend.data)
    BY <1>1, <1>4, <1>7, <2>2, CountedType DEF Due, Uses, TypeInv, TypeOK
  <2>3. CASE b \notin Span(pend.data)
    BY <1>1, <1>4, <1>7, <2>3, CountedType DEF Due, Uses
  <2> QED BY <2>2, <2>3
<1>9. (CountInv /\ ExactInv)'
  <2>1. ASSUME NEW b
        PROVE  /\ Counted(b)' \in {0, Counted(b)} /\ (Uses(bulk, b)' <=> Uses(bulk, b))
               /\ Cardinality(Users(b)') + Counted(b)' \in Nat
               /\ Cardinality(Users(b)) + Counted(b) \in Nat
               /\ Cardinality(Users(b)') + Counted(b)' >= Cardinality(Users(b)) + Counted(b)
    BY <1>4, <1>7, CountedType
  <2> QED BY <1>1, <1>4, <1>5, <1>8, <2>1, AddHeaderCounts
<1> QED BY <1>3, <1>6, <1>9

LEMMA BulkHeaderStep ==
  ASSUME AllocInv, NEW num \in Nums, NEW n \in HdrLens, NEW p \in 0..Len(sha),
         BulkHeader(num, p, n)
  PROVE  (DataInv /\ HeaderInv /\ CountInv /\ ExactInv)'
<1> USE DEF AllocInv
<1> DEFINE new == [num |-> num, data |-> bulk.data, at |-> p, blocks |-> n]
<1>1. /\ bulk # None /\ UNCHANGED <<sda, sdt, pend, fwd, scene, history>> /\ pend = None
      /\ bulk' = [bulk EXCEPT !.sent = @ + 1] /\ bulk.sent < MaxSent
      /\ AddHeader(bulk.data, "SELFPACK", num, p, n)
  BY DEF BulkHeader, BaseFree
<1>2. bulk \in [data : Data, sent : 0..MaxSent] BY <1>1 DEF TypeInv, TypeOK
<1>a. /\ bulk.data \in Data /\ bulk.sent \in Nat /\ bulk'.data = bulk.data
      /\ bulk'.sent = bulk.sent + 1 /\ bulk' # None
  <2>1. bulk' \in [data : Data, sent : 0..MaxSent] /\ bulk'.data = bulk.data
        /\ bulk'.sent = bulk.sent + 1 /\ bulk.sent \in Nat
    BY <1>1, <1>2, SmbAllocAssumption
  <2>2. bulk' \in [data : AnyData, sent : 0..MaxSent] BY <2>1, DataTypes
  <2> QED BY <1>2, <2>1, <2>2, SmbAllocAssumption DEF AnyData
<1>3. HeaderInv' BY <1>1, <1>2, AddHeaderKeepsHeaders
<1>4. /\ new \notin live /\ new.data = bulk.data /\ live' = live \union {new}
      /\ \A b : /\ b \in Span(bulk.data) => Cardinality(Users(b)') = Cardinality(Users(b)) + 1
                /\ b \notin Span(bulk.data) => Cardinality(Users(b)') = Cardinality(Users(b))
                /\ Cardinality(Users(b)) \in Nat
  BY <1>1, HeaderNew
<1> HIDE DEF new
<1>5. DataInUse' = DataInUse
  BY <1>1, <1>a, <1>4 DEF DataInUse, Reserved, InProgress
<1>6. DataInv'
  <2>1. TextsStored' /\ TextsDistinct'
    BY <1>1, <1>5 DEF DataInv, TextsStored, TextsDistinct, Stored
  <2>2. PendFresh' BY <1>1 DEF PendFresh
  <2>3. BulkFresh' BY <1>a DEF BulkFresh
  <2> QED BY <2>1, <2>2, <2>3 DEF DataInv
<1>7. \A b : Counted(b)' = Counted(b) /\ (Uses(bulk, b)' <=> Uses(bulk, b))
  BY <1>1, <1>a DEF Counted, Uses
<1>8. \A b : Due(b)' = Due(b)
  <2> TAKE b
  <2>2. CASE b \in Span(bulk.data)
    BY <1>1, <1>a, <1>4, <1>7, <2>2, CountedType DEF Due, Uses
  <2>3. CASE b \notin Span(bulk.data)
    BY <1>1, <1>a, <1>4, <1>7, <2>3, CountedType DEF Due, Uses
  <2> QED BY <2>2, <2>3
<1>9. (CountInv /\ ExactInv)'
  <2>1. ASSUME NEW b
        PROVE  /\ Counted(b)' \in {0, Counted(b)} /\ (Uses(bulk, b)' <=> Uses(bulk, b))
               /\ Cardinality(Users(b)') + Counted(b)' \in Nat
               /\ Cardinality(Users(b)) + Counted(b) \in Nat
               /\ Cardinality(Users(b)') + Counted(b)' >= Cardinality(Users(b)) + Counted(b)
    BY <1>4, <1>7, CountedType
  <2> QED BY <1>1, <1>4, <1>5, <1>8, <2>1, AddHeaderCounts
<1> QED BY <1>3, <1>6, <1>9

LEMMA ForwardHeaderStep ==
  ASSUME AllocInv, NEW num \in Nums, NEW n \in HdrLens, NEW p \in 0..Len(sha),
         ForwardHeader(num, p, n)
  PROVE  (DataInv /\ HeaderInv /\ CountInv /\ ExactInv)'
<1> USE DEF AllocInv
<1> DEFINE new == [num |-> num, data |-> fwd.data, at |-> p, blocks |-> n]
<1>1. /\ fwd # None /\ fwd' = None /\ fwd.counted /\ UNCHANGED <<sda, sdt, pend, bulk, scene, history>>
      /\ pend = None /\ AddHeader(fwd.data, "SELFPACK", num, p, n)
  BY DEF ForwardHeader, BaseFree
<1>2. fwd.data \in Data BY <1>1 DEF TypeInv, TypeOK
<1>3. HeaderInv' BY <1>1, <1>2, AddHeaderKeepsHeaders
<1>4. /\ new \notin live /\ new.data = fwd.data /\ live' = live \union {new}
      /\ \A b : /\ b \in Span(fwd.data) => Cardinality(Users(b)') = Cardinality(Users(b)) + 1
                /\ b \notin Span(fwd.data) => Cardinality(Users(b)') = Cardinality(Users(b))
                /\ Cardinality(Users(b)) \in Nat
  BY <1>1, HeaderNew
<1> HIDE DEF new
<1>5. DataInUse' = DataInUse
  BY <1>1, <1>4 DEF DataInUse, Reserved, InProgress
<1>6. DataInv'
  <2>1. TextsStored' /\ TextsDistinct'
    BY <1>1, <1>5 DEF DataInv, TextsStored, TextsDistinct, Stored
  <2>2. PendFresh' BY <1>1 DEF PendFresh
  <2>3. BulkFresh' BY <1>1, <1>4 DEF DataInv, BulkFresh
  <2> QED BY <2>1, <2>2, <2>3 DEF DataInv
<1>7. \A b : /\ Counted(b)' = 0 /\ (Uses(bulk, b)' <=> Uses(bulk, b))
             /\ Counted(b) = IF b \in Span(fwd.data) THEN 1 ELSE 0
  BY <1>1 DEF Counted, Uses
<1>8. \A b : Due(b)' = Due(b)
  <2> TAKE b
  <2>1. bulk # None => bulk.sent \in Nat BY SmbAllocAssumption DEF TypeInv, TypeOK
  <2>2. CASE b \in Span(fwd.data)
    BY <1>1, <1>4, <1>7, <2>1, <2>2 DEF Due, Uses
  <2>3. CASE b \notin Span(fwd.data)
    BY <1>1, <1>4, <1>7, <2>1, <2>3 DEF Due, Uses
  <2> QED BY <2>2, <2>3
<1>9. (CountInv /\ ExactInv)'
  <2>1. ASSUME NEW b
        PROVE  /\ Counted(b)' \in {0, Counted(b)} /\ (Uses(bulk, b)' <=> Uses(bulk, b))
               /\ Cardinality(Users(b)') + Counted(b)' \in Nat
               /\ Cardinality(Users(b)) + Counted(b) \in Nat
               /\ Cardinality(Users(b)') + Counted(b)' >= Cardinality(Users(b)) + Counted(b)
    BY <1>4, <1>7
  <2> QED BY <1>1, <1>4, <1>5, <1>8, <2>1, AddHeaderCounts
<1> QED BY <1>3, <1>6, <1>9

---------------------------------------------------------------------------
(* A message given up *)

LEMMA HeadersKept ==
  HeaderInv /\ UNCHANGED <<live, sha, shd>> => HeaderInv'
BY DEF HeaderInv, Placed

\* A header is written where none is, and no message is added.
LEMMA AbandonedKeepsHeaders ==
  ASSUME TypeInv, HeaderInv, NEW storage \in Storages \union {"SELFPACK"},
         UNCHANGED <<sha, shd>> \/ HeaderAbandoned(storage), UNCHANGED live
  PROVE  HeaderInv'
<1> USE DEF HeaderInv
<1>1. ASSUME NEW n \in HdrLens, NEW p \in 0..Len(sha), NEW num \in Nums,
             Found(storage, sha, p, n),
             sha' = Filled(sha, p, n, 1), shd' = Filled(shd, p, n, num),
             NEW m \in live
      PROVE  Placed(m)'
  <2>1. RunFilled(sha, shd, sha', shd', {0, 1}, Nums, p, n, num)
    BY <1>1, HeaderTable, Zenon
  <2>2. m.at \in Nat /\ m.blocks \in Nat /\ m.at + m.blocks <= Len(sha)
    BY SmbAllocAssumption DEF TypeInv, TypeOK, HeadersInFile
  <2>3. ASSUME NEW b \in m.at .. m.at + m.blocks - 1
        PROVE  shd'[b + 1] = m.num /\ sha'[b + 1] = 1
    <3>1. shd[b + 1] = m.num /\ sha[b + 1] = 1 BY DEF Placed
    <3>2. b \in 0..(Len(sha) - 1) BY <2>2, TableTypes
    <3>3. b \notin p .. p + n - 1 BY <2>1, <3>1, <3>2 DEF RunFilled
    <3>4. b \in 0..(Len(sha') - 1) BY <2>1, <3>2, TableTypes DEF RunFilled
    <3> QED BY <2>1, <3>1, <3>3, <3>4 DEF RunFilled
  <2> QED BY <2>3 DEF Placed
<1>2. CASE UNCHANGED <<sha, shd>> BY <1>2, HeadersKept
<1>3. CASE HeaderAbandoned(storage)
  <2>1. PICK n \in HdrLens, p \in 0..Len(sha), num \in Nums :
          /\ Found(storage, sha, p, n)
          /\ sha' = Filled(sha, p, n, 1) /\ shd' = Filled(shd, p, n, num)
    BY <1>3 DEF HeaderAbandoned
  <2>2. \A m \in live : Placed(m)' BY <1>1, <2>1
  <2> QED BY <2>2
<1> QED BY <1>2, <1>3

LEMMA BlocksInTable ==
  ASSUME AllocInv, NEW d \in DataInUse, NEW b \in Span(d)
  PROVE  b \in 0..(Len(sda) - 1) /\ b + 1 \in 1..Len(sda) /\ sda[b + 1] \in Nat
<1>1. b \in 0..(Len(sda) - 1)
  <2>1. b \in Nat /\ b < Len(sda)
    BY InUseTypes DEF AllocInv, DataInv, TextsStored, Stored, Span, AnyData
  <2> QED BY <2>1, TableTypes DEF AllocInv
<1>2. Len(sda) \in Nat BY TableTypes DEF AllocInv
<1>3. b + 1 \in 1..Len(sda) BY <1>1, <1>2
<1>4. sda[b + 1] \in Counts BY <1>3, TableTypes DEF AllocInv
<1> QED BY <1>1, <1>3, <1>4, SmbAllocAssumption DEF Counts

\* What was to be its data is nobody else's.
LEMMA PendDropped ==
  ASSUME AllocInv, pend # None, pend' = None, UNCHANGED <<sdt, live, bulk, fwd, scene, history>>,
         Len(sda') = Len(sda),
         \A b \in 0..(Len(sda) - 1) : b \notin Span(pend.data) => sda'[b + 1] = sda[b + 1],
         Simple => \A b \in Span(pend.data) : sda'[b + 1] = 0
  PROVE  (DataInv /\ CountInv /\ ExactInv)'
<1> USE DEF AllocInv
<1>1. DataInUse' \subseteq DataInUse BY DEF DataInUse, Reserved, InProgress
<1>2. \A e \in DataInUse' : \/ \E m \in live : e = m.data
                            \/ \E x \in {bulk, fwd} : x # None /\ e = x.data
  BY DEF DataInUse, Reserved, InProgress
<1>3. ASSUME NEW e \in DataInUse', NEW b \in Span(e)
      PROVE  b \notin Span(pend.data) /\ e \in DataInUse /\ sda'[b + 1] = sda[b + 1]
  <2>1. e \in DataInUse BY <1>1
  <2>2. b \notin Span(pend.data) BY <1>2, PendApart DEF Users, Uses
  <2> QED BY <2>1, <2>2, BlocksInTable
<1>4. DataInv'
  <2>1. TextsStored' BY <1>1 DEF DataInv, TextsStored, Stored
  <2>2. TextsDistinct' BY <1>1 DEF DataInv, TextsDistinct
  <2>3. PendFresh' BY DEF PendFresh
  <2>4. BulkFresh' BY DEF DataInv, BulkFresh
  <2> QED BY <2>1, <2>2, <2>3, <2>4 DEF DataInv
<1>5. \A b : /\ Users(b)' = Users(b) /\ Counted(b)' = Counted(b)
             /\ Uses(bulk, b)' <=> Uses(bulk, b)
  BY DEF Users, Counted, Uses
<1>6. \A b : b \notin Span(pend.data) => Due(b)' = Due(b)
  BY <1>5, DueType DEF Due, Uses
<1>7. CountInv'
  <2> SUFFICES ASSUME NEW e \in DataInUse', NEW b \in Span(e)
               PROVE  (Enough(e, b) /\ Limited(e, b))'
    BY DEF CountInv
  <2>1. Enough(e, b) /\ Limited(e, b) BY <1>3 DEF CountInv
  <2> QED BY <1>3, <1>5, <1>6, <2>1 DEF Enough, Limited, Slack
<1>8. ExactInv'
  <2> SUFFICES ASSUME Simple, NEW b \in 0..(Len(sda) - 1) PROVE sda'[b + 1] = Due(b)'
    BY DEF ExactInv, Simple, TailLens, Faults
  <2>1. CASE b \notin Span(pend.data) BY <1>6, <2>1 DEF ExactInv
  <2>2. CASE b \in Span(pend.data)
    <3>1. Users(b) = {} /\ ~Uses(bulk, b) /\ ~Uses(fwd, b) BY <2>2, PendApart
    <3>2. Cardinality(Users(b)) = 0 BY <3>1, FS_EmptySet
    <3>3. Due(b)' = 0
      <4>1. Counted(b)' = 0 BY <1>5, <3>1 DEF Counted
      <4>2. ~Uses(pend, b)' /\ ~Uses(bulk, b)' BY <1>5, <3>1 DEF Uses
      <4>3. Cardinality(Users(b)') = 0 BY <1>5, <3>2
      <4> QED BY <4>1, <4>2, <4>3 DEF Due
    <3> QED BY <2>2, <3>3
  <2> QED BY <2>1, <2>2
<1> QED BY <1>4, <1>7, <1>8

LEMMA PendFails ==
  ASSUME AllocInv, PostHeaderFails \/ PostTextFails \/ PostCrash
  PROVE  (DataInv /\ HeaderInv /\ CountInv /\ ExactInv)'
<1> USE DEF AllocInv
<1>1. /\ pend # None /\ pend' = None /\ UNCHANGED <<sdt, live, bulk, fwd, scene, history>>
  BY DEF PostHeaderFails, PostTextFails, PostCrash
<1>2. /\ pend.data \in DataInUse /\ pend.data \in AnyData /\ pend.data \in Data
      /\ pend.storage \in Storages
  BY <1>1, InUse, InUseTypes DEF TypeInv, TypeOK
<1>a. sda \in Seq(Counts) /\ Len(sda) \in Nat BY TableTypes
<1>b. HeaderInv'
  <2>1. UNCHANGED <<sha, shd>> \/ HeaderAbandoned(pend.storage)
    BY DEF PostHeaderFails, PostTextFails, PostCrash
  <2>2. pend.storage \in Storages \union {"SELFPACK"} BY <1>2
  <2> QED BY <1>1, <2>1, <2>2, AbandonedKeepsHeaders
<1>c. CASE sda' = sda /\ ~Simple BY <1>1, <1>b, <1>c, PendDropped
<1>3. CASE PostHeaderFails /\ sda' = FreedDat(pend.data)
  <2>1. sda' = FreedDat(pend.data) BY <1>3
  <2>2. /\ Len(sda') = Len(sda)
        /\ \A i \in 1..Len(sda) : sda'[i] =
             IF sda[i] > Visits(pend.data, i - 1) THEN sda[i] - Visits(pend.data, i - 1) ELSE 0
    BY <1>2, <1>a, <2>1, FreedDatTable
  <2>3. ASSUME NEW b \in 0..(Len(sda) - 1), b \notin Span(pend.data) PROVE sda'[b + 1] = sda[b + 1]
    <3>1. b + 1 \in 1..Len(sda) /\ (b + 1) - 1 = b BY <1>a
    <3>2. Visits(pend.data, b) = 0 BY <1>2, <2>3, VisitsBounds
    <3>3. sda[b + 1] \in Nat BY <3>1, <1>a, SmbAllocAssumption DEF Counts
    <3> QED BY <2>2, <3>1, <3>2, <3>3
  <2>4. ASSUME Simple, NEW b \in Span(pend.data) PROVE sda'[b + 1] = 0
    <3>1. b \in 0..(Len(sda) - 1) /\ b + 1 \in 1..Len(sda) /\ (b + 1) - 1 = b
      BY <1>2, BlocksInTable
    <3>2. pend.data.tail = 0 BY <1>2, <2>4 DEF Simple, Data
    <3>3. Visits(pend.data, b) = 1 BY <1>2, <3>2, NoTailVisits
    <3>4. Users(b) = {} /\ ~Uses(bulk, b) /\ ~Uses(fwd, b) BY <1>1, PendApart
    <3>5. Cardinality(Users(b)) = 0 BY <3>4, FS_EmptySet
    <3>6. Due(b) = 1 BY <1>1, <3>4, <3>5 DEF Due, Uses, Counted
    <3>7. sda[b + 1] = 1 BY <2>4, <3>1, <3>6 DEF ExactInv
    <3> QED BY <2>2, <3>1, <3>3, <3>7
  <2> QED BY <1>1, <1>b, <2>2, <2>3, <2>4, PendDropped
<1>4. CASE sda' = FreedDat([pend.data EXCEPT !.tail = 0]) /\ ~Simple
  <2> DEFINE e == [pend.data EXCEPT !.tail = 0]
  <2>1. sda' = FreedDat(e) /\ ~Simple BY <1>4
  <2>2. e \in AnyData /\ \A b : b \notin Span(pend.data) => Visits(e, b) = 0
    BY <1>2, BodyOnly
  <2> HIDE DEF e
  <2>3. /\ Len(sda') = Len(sda)
        /\ \A i \in 1..Len(sda) : sda'[i] =
             IF sda[i] > Visits(e, i - 1) THEN sda[i] - Visits(e, i - 1) ELSE 0
    BY <1>a, <2>1, <2>2, FreedDatTable
  <2>4. ASSUME NEW b \in 0..(Len(sda) - 1), b \notin Span(pend.data) PROVE sda'[b + 1] = sda[b + 1]
    <3>1. b + 1 \in 1..Len(sda) /\ (b + 1) - 1 = b BY <1>a
    <3>2. Visits(e, b) = 0 BY <2>2, <2>4
    <3>3. sda[b + 1] \in Nat BY <3>1, <1>a, SmbAllocAssumption DEF Counts
    <3> QED BY <2>3, <3>1, <3>2, <3>3
  <2> QED BY <1>1, <1>b, <2>1, <2>3, <2>4, PendDropped
<1>5. CASE PostCrash BY <1>5, <1>c DEF PostCrash, Simple
<1>6. CASE PostHeaderFails /\ "open" \in Faults /\ StoppedShort(pend.data)
  BY <1>6, <1>c, <1>4 DEF Simple, StoppedShort
<1>7. CASE PostTextFails
  <2> DEFINE e == [pend.data EXCEPT !.tail = 0]
  <2>1. [e EXCEPT !.tail = 0] = e BY <1>2 DEF AnyData
  <2>2. ~Simple /\ GivenBack(e) BY <1>7 DEF PostTextFails, Simple
  <2>3. sda' = sda \/ sda' = FreedDat(e) BY <2>1, <2>2 DEF GivenBack, StoppedShort
  <2> QED BY <1>c, <1>4, <2>2, <2>3
<1> QED BY <1>3, <1>5, <1>6, <1>7 DEF PostHeaderFails, GivenBack

---------------------------------------------------------------------------
(* A bulk mailing counts its references *)

\* Arithmetic of a block visited v times by a walk over its message.
LEMMA Scaled ==
  ASSUME NEW s \in Nat, NEW r \in Nat, NEW v \in {0, 1, 2}, NEW n \in Int
  PROVE  /\ s + r * v \in Nat /\ s + r * v >= s
         /\ s <= 1 + v * n => s + r * v <= 1 + v * (n + r)
         /\ s >= 1 + v * (n - 1) => s + r * v >= 1 + v * ((n + r) - 1)
<1>1. CASE v = 0 BY <1>1
<1>2. CASE v = 1 BY <1>2
<1>3. CASE v = 2 BY <1>3
<1> QED BY <1>1, <1>2, <1>3

LEMMA Grown ==
  ASSUME NEW v \in {0, 1, 2}, NEW n \in Int, NEW m \in Int, n <= m
  PROVE  v * n <= v * m /\ v * n \in Int /\ v * m \in Int
<1>1. CASE v = 0 BY <1>1
<1>2. CASE v = 1 BY <1>2
<1>3. CASE v = 2 BY <1>3
<1> QED BY <1>1, <1>2, <1>3

\* What a block's users and MaxSent + MaxStray + 1 more amount to still fits a count.
LEMMA RoomInCount ==
  ASSUME AllocInv, CountsFit, NEW b, NEW v \in {0, 1, 2}, NEW k \in 0..(MaxSent + MaxStray + 1),
         NEW x \in Nat, x <= 1 + v * (Cardinality(Users(b)) + k)
  PROVE  x <= MaxRefs
<1> USE DEF AllocInv
<1>1. Cardinality(Nums) \in Nat BY FS_CardinalityType DEF CountsFit
<1>2. /\ Cardinality(Users(b)) \in Nat /\ Cardinality(Users(b)) <= Cardinality(Nums)
      /\ MaxSent \in Nat /\ MaxStray \in Nat /\ MaxRefs \in Nat
  BY DueType, UsersBound, SmbAllocAssumption DEF CountsFit
<1> DEFINE n == Cardinality(Users(b))
           m == Cardinality(Nums)
<1> HIDE DEF n, m
<1>3. /\ n \in Nat /\ m \in Nat /\ n <= m /\ 2 * (m + MaxSent + MaxStray + 1) < MaxRefs
      /\ x <= 1 + v * (n + k)
  BY <1>1, <1>2 DEF n, m, CountsFit
<1> QED BY <1>2, <1>3

LEMMA BulkNoUserStep ==
  ASSUME AllocInv, BulkNoUser
  PROVE  (DataInv /\ HeaderInv /\ CountInv /\ ExactInv)'
<1> USE DEF AllocInv
<1>1. /\ bulk # None /\ UNCHANGED <<sda, sdt, sha, shd, live, pend, fwd, scene, history>> /\ ~Simple
      /\ bulk' = [bulk EXCEPT !.sent = @ + 1] /\ bulk.sent < MaxSent
  BY DEF BulkNoUser, Simple
<1>2. bulk \in [data : Data, sent : 0..MaxSent] BY <1>1 DEF TypeInv, TypeOK
<1>3. /\ bulk.data \in Data /\ bulk.sent \in Nat /\ bulk'.data = bulk.data
      /\ bulk'.sent = bulk.sent + 1 /\ bulk' # None
  <2>1. bulk' \in [data : Data, sent : 0..MaxSent] /\ bulk'.data = bulk.data
        /\ bulk'.sent = bulk.sent + 1 /\ bulk.sent \in Nat
    BY <1>1, <1>2, SmbAllocAssumption
  <2>2. bulk' \in [data : AnyData, sent : 0..MaxSent] BY <2>1, DataTypes
  <2> QED BY <1>2, <2>1, <2>2, SmbAllocAssumption DEF AnyData
<1>4. DataInUse' = DataInUse BY <1>1, <1>3 DEF DataInUse, Reserved, InProgress
<1>5. DataInv'
  <2>1. TextsStored' /\ TextsDistinct'
    BY <1>1, <1>4 DEF DataInv, TextsStored, TextsDistinct, Stored
  <2>2. PendFresh' BY <1>1, <1>3 DEF DataInv, PendFresh
  <2>3. BulkFresh' BY <1>3 DEF BulkFresh
  <2> QED BY <2>1, <2>2, <2>3 DEF DataInv
<1>6. \A b : /\ Users(b)' = Users(b) /\ Counted(b)' = Counted(b)
             /\ Uses(bulk, b)' <=> Uses(bulk, b)
  BY <1>1, <1>3 DEF Users, Counted, Uses
<1>7. ASSUME NEW b PROVE Due(b)' \in Int /\ Due(b) \in Int /\ Due(b)' <= Due(b)
  <2>1. Uses(pend, b)' <=> Uses(pend, b) BY <1>1 DEF Uses
  <2>2. Cardinality(Users(b)) \in Nat /\ Counted(b) \in {0, 1} BY DueType
  <2> QED BY <1>3, <1>6, <2>1, <2>2 DEF Due
<1>8. CountInv'
  <2> SUFFICES ASSUME NEW e \in DataInUse, NEW b \in Span(e) PROVE (Enough(e, b) /\ Limited(e, b))'
    BY <1>4 DEF CountInv
  <2>1. Enough(e, b) /\ Limited(e, b) BY DEF CountInv
  <2>2. Limited(e, b)' BY <1>1, <1>6, <2>1 DEF Limited, Slack
  <2>3. Visits(e, b) \in {0, 1, 2} BY InUseTypes, VisitsBounds
  <2>4. sda[b + 1] \in Nat BY BlocksInTable
  <2>5. Enough(e, b)' BY <1>1, <1>6, <1>7, <2>1, <2>3, <2>4 DEF Enough
  <2> QED BY <2>2, <2>5
<1>9. ExactInv' BY <1>1 DEF ExactInv, Simple, TailLens, Faults
<1> QED BY <1>1, <1>5, <1>8, <1>9, HeadersKept

LEMMA BulkEndStep ==
  ASSUME AllocInv, CountsFit, BulkEnd
  PROVE  (DataInv /\ HeaderInv /\ CountInv /\ ExactInv)'
<1> USE DEF AllocInv
<1>1. bulk # None /\ bulk' = None /\ UNCHANGED <<sdt, sha, shd, live, pend, fwd, scene, history>>
  BY DEF BulkEnd
<1>2. /\ bulk.data \in DataInUse /\ bulk.data \in Data /\ bulk.data \in AnyData
      /\ bulk.sent \in 0..MaxSent /\ MaxSent \in Nat
  BY <1>1, InUse, InUseTypes, SmbAllocAssumption DEF TypeInv, TypeOK
<1>a. sda \in Seq(Counts) /\ Len(sda) \in Nat BY TableTypes
<1>3. DataInUse' \subseteq DataInUse
      /\ \A e \in DataInUse' : \/ \E m \in live : e = m.data
                               \/ \E x \in {pend, fwd} : x # None /\ e = x.data
  BY <1>1 DEF DataInUse, Reserved, InProgress
<1>4. \A b : /\ Users(b)' = Users(b) /\ Counted(b)' = Counted(b) /\ ~Uses(bulk, b)'
             /\ Uses(pend, b)' <=> Uses(pend, b)
  BY <1>1 DEF Users, Counted, Uses
<1>5. DataInv' /\ (Len(sda') = Len(sda) => TextsStored')
  <2>1. Len(sda') = Len(sda)
    BY <1>1, <1>2, <1>a, FreedAllTable, IncDatTable DEF BulkEnd
  <2>2. TextsStored' BY <1>1, <1>3, <2>1 DEF DataInv, TextsStored, Stored
  <2>3. TextsDistinct' BY <1>3 DEF DataInv, TextsDistinct
  <2>4. PendFresh' BY <1>1 DEF DataInv, PendFresh
  <2>5. BulkFresh' BY <1>1 DEF BulkFresh
  <2> QED BY <2>2, <2>3, <2>4, <2>5 DEF DataInv
<1>6. ASSUME NEW b, b \notin Span(bulk.data)
      PROVE  Due(b)' = Due(b) /\ ~Uses(bulk, b) /\ Visits(bulk.data, b) = 0
  <2>1. ~Uses(bulk, b) BY <1>6 DEF Uses
  <2> QED BY <1>2, <1>4, <1>6, <2>1, DueType, VisitsBounds DEF Due
<1>7. ASSUME NEW b \in 0..(Len(sda) - 1), b \notin Span(bulk.data) PROVE sda'[b + 1] = sda[b + 1]
  <2>1. b + 1 \in 1..Len(sda) /\ (b + 1) - 1 = b BY <1>a
  <2>2. sda[b + 1] \in Counts BY <1>a, <2>1
  <2>3. Visits(bulk.data, b) = 0 BY <1>6, <1>7
  <2>4. CASE bulk.sent = 0
    <3>1. sda' = FreedAll(bulk.data) BY <2>4 DEF BulkEnd
    <3> QED BY <1>2, <1>a, <2>1, <2>3, <3>1, FreedAllTable
  <2>5. CASE bulk.sent > 0
    <3>1. sda' = IncDat(bulk.data, bulk.sent - 1) /\ bulk.sent - 1 \in Nat
      BY <1>2, <2>5 DEF BulkEnd
    <3>2. sda[b + 1] + (bulk.sent - 1) * Visits(bulk.data, b) = sda[b + 1]
          /\ sda[b + 1] <= MaxRefs
      BY <2>2, <2>3, <3>1, SmbAllocAssumption DEF Counts
    <3> QED BY <1>2, <1>a, <2>1, <3>1, <3>2, IncDatTable
  <2> QED BY <1>2, <2>4, <2>5
<1>8. CASE bulk.sent = 0
  <2>1. ASSUME NEW b \in Span(bulk.data)
        PROVE  /\ Users(b) = {} /\ Cardinality(Users(b)) = 0
               /\ ~Uses(pend, b) /\ ~Uses(fwd, b) /\ Due(b)' = 0
    <3>1. Users(b) = {} BY <1>1, <1>2, <1>8, Apart, InUse DEF DataInv, BulkFresh, Users
    <3>2. ~Uses(fwd, b) BY <1>1, <1>2, <1>8, Apart, InUse DEF DataInv, BulkFresh, Uses
    <3>3. ~Uses(pend, b) BY <1>1, PendApart DEF Uses
    <3>4. Cardinality(Users(b)) = 0 BY <3>1, FS_EmptySet
    <3>5. Counted(b) = 0 BY <3>2 DEF Counted
    <3> QED BY <1>4, <3>1, <3>2, <3>3, <3>4, <3>5 DEF Due
  <2>2. ASSUME NEW e \in DataInUse', NEW b \in Span(e)
        PROVE  e \in DataInUse /\ b \notin Span(bulk.data)
    BY <1>3, <2>1 DEF Users, Uses
  <2>3. CountInv'
    <3> SUFFICES ASSUME NEW e \in DataInUse', NEW b \in Span(e)
                 PROVE  (Enough(e, b) /\ Limited(e, b))'
      BY DEF CountInv
    <3>1. e \in DataInUse /\ b \notin Span(bulk.data) BY <2>2
    <3>2. Enough(e, b) /\ Limited(e, b) BY <3>1 DEF CountInv
    <3>3. sda'[b + 1] = sda[b + 1] BY <1>7, <3>1, BlocksInTable
    <3> QED BY <1>1, <1>4, <1>6, <3>1, <3>2, <3>3 DEF Enough, Limited, Slack
  <2>4. ExactInv'
    <3>1. Len(sda') = Len(sda) /\ sda' = FreedAll(bulk.data)
      BY <1>2, <1>8, <1>a, FreedAllTable DEF BulkEnd
    <3> SUFFICES ASSUME Simple, NEW b \in 0..(Len(sda) - 1) PROVE sda'[b + 1] = Due(b)'
      BY <1>1, <3>1 DEF ExactInv, Simple, TailLens, Faults
    <3>2. CASE b \notin Span(bulk.data) BY <1>6, <1>7, <3>2 DEF ExactInv
    <3>3. CASE b \in Span(bulk.data)
      <4>1. bulk.data.tail = 0 BY <1>2 DEF Simple, Data
      <4>2. Visits(bulk.data, b) = 1 BY <1>2, <3>3, <4>1, NoTailVisits
      <4>3. b + 1 \in 1..Len(sda) /\ (b + 1) - 1 = b BY <1>a
      <4>4. sda'[b + 1] = 0 BY <1>2, <1>a, <3>1, <4>2, <4>3, FreedAllTable
      <4> QED BY <2>1, <3>3, <4>4
    <3> QED BY <3>2, <3>3
  <2> QED BY <1>1, <1>5, <2>3, <2>4, HeadersKept
<1>9. CASE bulk.sent > 0
  <2>1. sda' = IncDat(bulk.data, bulk.sent - 1) /\ bulk.sent - 1 \in Nat
    BY <1>2, <1>9 DEF BulkEnd
  <2>2. ASSUME NEW b \in Span(bulk.data), NEW v \in {0, 1, 2}, Visits(bulk.data, b) = v
        PROVE  /\ sda'[b + 1] = sda[b + 1] + (bulk.sent - 1) * v
               /\ Due(b)' = Due(b) + (bulk.sent - 1) /\ Due(b) \in Int
               /\ sda[b + 1] \in Nat /\ Cardinality(Users(b)) \in Nat /\ Counted(b) \in {0, 1}
               /\ sda[b + 1] <= 1 + v * (Cardinality(Users(b)) + Counted(b) + history.stray)
               /\ Enough(bulk.data, b) /\ b \in 0..(Len(sda) - 1)
    <3>1. /\ b + 1 \in 1..Len(sda) /\ (b + 1) - 1 = b /\ sda[b + 1] \in Nat
          /\ b \in 0..(Len(sda) - 1)
      BY <1>2, BlocksInTable
    <3>2. Due(b) \in Int /\ Cardinality(Users(b)) \in Nat /\ Counted(b) \in {0, 1} BY DueType
    <3>3. Uses(bulk, b) BY <1>1 DEF Uses
    <3>4. Enough(bulk.data, b) /\ Limited(bulk.data, b) BY <1>2 DEF CountInv
    <3>a. history.stray \in 0..MaxStray /\ MaxStray \in Nat BY SlackType
    <3>5. sda[b + 1] <= 1 + v * (Cardinality(Users(b)) + Counted(b) + history.stray)
      BY <2>2, <3>2, <3>3, <3>4, <3>a DEF Limited, Slack
    <3>6. Due(b)' = Due(b) + (bulk.sent - 1)
      BY <1>2, <1>4, <3>2, <3>3 DEF Due
    <3> DEFINE x == sda[b + 1] + (bulk.sent - 1) * v
               k == Counted(b) + history.stray + (bulk.sent - 1)
    <3>7. x \in Nat /\ k \in 0..(MaxSent + MaxStray + 1) /\ x <= 1 + v * (Cardinality(Users(b)) + k)
      <4>1. k \in 0..(MaxSent + MaxStray + 1) BY <1>2, <2>1, <3>2, <3>a
      <4> DEFINE n == Cardinality(Users(b)) + Counted(b) + history.stray
                 r == bulk.sent - 1
      <4>2. n \in Int /\ r \in Nat /\ Cardinality(Users(b)) + k = n + r
        BY <2>1, <3>2, <3>a
      <4>3. sda[b + 1] <= 1 + v * n BY <3>5
      <4> HIDE DEF n, r
      <4>4. sda[b + 1] + r * v \in Nat /\ sda[b + 1] + r * v <= 1 + v * (n + r)
        BY <3>1, <4>2, <4>3, Scaled
      <4>5. x = sda[b + 1] + r * v BY DEF r
      <4> QED BY <4>1, <4>2, <4>4, <4>5
    <3> HIDE DEF k
    <3>8. x <= MaxRefs BY <3>7, RoomInCount
    <3>9. sda'[b + 1] = x BY <1>2, <1>a, <2>1, <2>2, <3>1, <3>8, IncDatTable
    <3> QED BY <3>1, <3>2, <3>4, <3>5, <3>6, <3>9
  <2>3. CountInv'
    <3> SUFFICES ASSUME NEW e \in DataInUse', NEW b \in Span(e)
                 PROVE  (Enough(e, b) /\ Limited(e, b))'
      BY DEF CountInv
    <3>1. e \in DataInUse BY <1>3
    <3>2. Enough(e, b) /\ Limited(e, b) BY <3>1 DEF CountInv
    <3>3. CASE b \notin Span(bulk.data)
      <4>1. sda'[b + 1] = sda[b + 1] BY <1>7, <3>1, <3>3, BlocksInTable
      <4> QED BY <1>1, <1>4, <1>6, <3>2, <3>3, <4>1 DEF Enough, Limited, Slack
    <3>4. CASE b \in Span(bulk.data)
      <4>1. e = bulk.data BY <1>2, <3>1, <3>4, Apart
      <4>2. PICK v \in {0, 1, 2} : Visits(e, b) = v BY <1>2, <4>1, VisitsBounds
      <4>3. /\ sda'[b + 1] = sda[b + 1] + (bulk.sent - 1) * v
            /\ Due(b)' = Due(b) + (bulk.sent - 1) /\ Due(b) \in Int
            /\ sda[b + 1] \in Nat /\ Cardinality(Users(b)) \in Nat /\ Counted(b) \in {0, 1}
            /\ sda[b + 1] <= 1 + v * (Cardinality(Users(b)) + Counted(b) + history.stray)
        BY <2>2, <3>4, <4>1, <4>2
      <4>b. history.stray \in Nat BY SlackType
      <4> DEFINE r == bulk.sent - 1
                 x == sda[b + 1]
                 n == Cardinality(Users(b)) + Counted(b) + history.stray
                 w == Due(b)
      <4>4. /\ r \in Nat /\ r <= MaxSent /\ x \in Nat /\ n \in Int /\ w \in Int /\ x <= 1 + v * n
            /\ x >= 1 /\ (e \notin history.short => x >= 1 + v * (w - 1))
            /\ (Counted(b) = 1 => x >= 1 + v)
            /\ sda'[b + 1] = x + r * v /\ Due(b)' = w + r /\ Visits(e, b) = v
            /\ Counted(b)' = Counted(b)
            /\ Cardinality(Users(b)') + Counted(b)' + Slack(b)' = n + MaxSent
        <5>1. r \in Nat /\ r <= MaxSent BY <1>2, <2>1
        <5>2. /\ x \in Nat /\ n \in Int /\ w \in Int /\ x <= 1 + v * n
              /\ sda'[b + 1] = x + r * v /\ Due(b)' = w + r
          BY <4>3, <4>b
        <5>3. /\ x >= 1 /\ (e \notin history.short => x >= 1 + v * (w - 1))
              /\ (Counted(b) = 1 => x >= 1 + v)
          BY <3>2, <4>2 DEF Enough
        <5>4. Counted(b)' = Counted(b) /\ Cardinality(Users(b)') = Cardinality(Users(b))
              /\ Slack(b)' = history.stray + MaxSent
          BY <1>1, <1>4 DEF Slack
        <5>5. Cardinality(Users(b)') + Counted(b)' + Slack(b)' = n + MaxSent
          <6> DEFINE u == Cardinality(Users(b))
                     c == Counted(b)
                     y == history.stray
          <6>1. u \in Nat /\ c \in {0, 1} /\ y \in Nat /\ MaxSent \in Nat
            BY <4>3, <4>b, SmbAllocAssumption
          <6>2. /\ Cardinality(Users(b)') = u /\ Counted(b)' = c /\ Slack(b)' = y + MaxSent
                /\ n = u + c + y
            BY <5>4
          <6> HIDE DEF u, c, y, n
          <6> QED BY <6>1, <6>2
        <5> QED BY <4>2, <5>1, <5>2, <5>3, <5>4, <5>5
      <4> HIDE DEF r, x, n, w
      <4>5. Enough(e, b)'
        <5>1. /\ x + r * v \in Nat /\ x + r * v >= x
              /\ e \notin history.short => x + r * v >= 1 + v * ((w + r) - 1)
          BY <4>4, Scaled
        <5>2. 1 <= x + r * v /\ (Counted(b) = 1 => 1 + v <= x + r * v) BY <4>4, <5>1
        <5>a. /\ (1 <= x + r * v => sda'[b + 1] >= 1)
              /\ (x + r * v >= 1 + v * ((w + r) - 1) =>
                    sda'[b + 1] >= 1 + Visits(e, b)' * (Due(b)' - 1))
              /\ Visits(e, b)' = v
          BY <4>4, <5>1 DEF Visits, BodyBlocks, TailBlocks, DatBlocks
        <5>3. /\ sda'[b + 1] >= 1
              /\ e \notin history.short => sda'[b + 1] >= 1 + Visits(e, b)' * (Due(b)' - 1)
          BY <5>1, <5>2, <5>a
        <5>4. Counted(b)' = 1 => sda'[b + 1] >= 1 + Visits(e, b)'
          BY <4>4, <5>1, <5>2, <5>a
        <5> QED BY <1>1, <5>3, <5>4 DEF Enough
      <4>6. Limited(e, b)'
        <5>1. x + r * v <= 1 + v * (n + r) BY <4>4, Scaled
        <5>2. v * (n + r) <= v * (n + MaxSent) /\ v * (n + r) \in Int
              /\ v * (n + MaxSent) \in Int
          BY <1>2, <4>4, Grown
        <5>3. x + r * v \in Nat BY <4>4, Scaled
        <5>4. x + r * v <= 1 + v * (n + MaxSent) BY <5>1, <5>2, <5>3
        <5> QED BY <4>4, <5>4 DEF Limited
      <4> QED BY <4>5, <4>6
    <3> QED BY <3>3, <3>4
  <2>4. ExactInv'
    <3>1. Len(sda') = Len(sda) BY <1>2, <1>a, <2>1, IncDatTable
    <3> SUFFICES ASSUME Simple, NEW b \in 0..(Len(sda) - 1) PROVE sda'[b + 1] = Due(b)'
      BY <1>1, <3>1 DEF ExactInv, Simple, TailLens, Faults
    <3>2. CASE b \notin Span(bulk.data) BY <1>6, <1>7, <3>2 DEF ExactInv
    <3>3. CASE b \in Span(bulk.data)
      <4>1. bulk.data.tail = 0 BY <1>2 DEF Simple, Data
      <4>2. Visits(bulk.data, b) = 1 BY <1>2, <3>3, <4>1, NoTailVisits
      <4>3. sda'[b + 1] = sda[b + 1] + (bulk.sent - 1) * 1 /\ Due(b)' = Due(b) + (bulk.sent - 1)
        BY <2>2, <3>3, <4>2
      <4> QED BY <2>1, <4>3 DEF ExactInv
    <3> QED BY <3>2, <3>3
  <2> QED BY <1>1, <1>5, <2>3, <2>4, HeadersKept
<1> QED BY <1>2, <1>8, <1>9

---------------------------------------------------------------------------
(* A message forwarded *)

LEMMA FreedBlock ==
  ASSUME AllocInv, NEW d \in AnyData, NEW b \in 0..(Len(sda) - 1)
  PROVE  /\ Len(FreedDat(d)) = Len(sda)
         /\ sda[b + 1] \in Nat
         /\ FreedDat(d)[b + 1] =
              IF sda[b + 1] > Visits(d, b) THEN sda[b + 1] - Visits(d, b) ELSE 0
         /\ b \notin Span(d) => FreedDat(d)[b + 1] = sda[b + 1]
<1> USE DEF AllocInv
<1>1. sda \in Seq(Counts) /\ Len(sda) \in Nat BY TableTypes
<1>2. b + 1 \in 1..Len(sda) /\ (b + 1) - 1 = b BY <1>1
<1>3. sda[b + 1] \in Nat BY <1>1, <1>2, SmbAllocAssumption DEF Counts
<1>4. /\ Len(FreedDat(d)) = Len(sda)
      /\ FreedDat(d)[b + 1] =
           IF sda[b + 1] > Visits(d, b) THEN sda[b + 1] - Visits(d, b) ELSE 0
  BY <1>1, <1>2, FreedDatTable
<1>5. b \notin Span(d) => Visits(d, b) = 0 BY VisitsBounds
<1> QED BY <1>3, <1>4, <1>5

LEMMA IncBlock ==
  ASSUME AllocInv, NEW d \in AnyData, NEW b \in 0..(Len(sda) - 1), NEW v \in {0, 1, 2},
         Visits(d, b) = v, sda[b + 1] + 1 * v <= MaxRefs
  PROVE  IncDat(d, 1)[b + 1] = sda[b + 1] + 1 * v
<1>1. sda \in Seq(Counts) /\ Len(sda) \in Nat BY TableTypes DEF AllocInv
<1>2. b + 1 \in 1..Len(sda) /\ (b + 1) - 1 = b BY <1>1
<1> DEFINE one == 1
<1>3. one \in Nat OBVIOUS
<1> HIDE DEF one
<1>4. IncDat(d, one)[b + 1] = sda[b + 1] + one * v
  <2>1. sda[b + 1] + one * Visits(d, b) <= MaxRefs BY DEF one
  <2> QED BY <1>1, <1>2, <1>3, <2>1, IncDatTable
<1> QED BY <1>4 DEF one

LEMMA OneLess ==
  ASSUME NEW s \in Nat, NEW v \in {0, 1, 2}, NEW n \in Int, s >= 1 + v
  PROVE  /\ s - v \in Nat /\ s - v >= 1 /\ (IF s > v THEN s - v ELSE 0) = s - v
         /\ s <= 1 + v * n => s - v <= 1 + v * (n - 1)
         /\ s >= 1 + v * (n - 1) => s - v >= 1 + v * ((n - 1) - 1)
<1>1. CASE v = 0 BY <1>1
<1>2. CASE v = 1 BY <1>2
<1>3. CASE v = 2 BY <1>3
<1> QED BY <1>1, <1>2, <1>3

LEMMA ForwardLoadStep ==
  ASSUME AllocInv, NEW m \in live, ForwardLoad(m)
  PROVE  (DataInv /\ HeaderInv /\ CountInv /\ ExactInv)'
<1> USE DEF AllocInv
<1>1. /\ fwd = None /\ fwd' = [data |-> m.data, counted |-> FALSE]
      /\ UNCHANGED <<sda, sdt, sha, shd, live, pend, bulk, scene, history>>
  BY DEF ForwardLoad
<1>2. fwd' # None /\ fwd'.data = m.data /\ ~fwd'.counted
  <2>1. m.data \in AnyData BY DataTypes
  <2> QED BY <1>1, <2>1, SomethingUnderWay
<1>3. DataInUse' = DataInUse BY <1>1, <1>2 DEF DataInUse, Reserved, InProgress
<1>4. DataInv'
  <2>1. TextsStored' /\ TextsDistinct'
    BY <1>1, <1>3 DEF DataInv, TextsStored, TextsDistinct, Stored
  <2>2. PendFresh' BY <1>1, <1>2 DEF DataInv, PendFresh
  <2>3. BulkFresh' BY <1>1, <1>2 DEF DataInv, BulkFresh
  <2> QED BY <2>1, <2>2, <2>3 DEF DataInv
<1>5. \A b : /\ Users(b)' = Users(b) /\ Counted(b)' = Counted(b)
             /\ Uses(bulk, b)' <=> Uses(bulk, b)
             /\ Uses(pend, b)' <=> Uses(pend, b)
  BY <1>1, <1>2 DEF Users, Counted, Uses
<1>6. \A b : Due(b)' = Due(b) BY <1>1, <1>5 DEF Due
<1>7. (CountInv /\ ExactInv)'
  BY <1>1, <1>3, <1>5, <1>6
     DEF CountInv, Enough, Limited, Slack, ExactInv, Simple, TailLens, Faults
<1> QED BY <1>1, <1>4, <1>7, HeadersKept

LEMMA ForwardIncStep ==
  ASSUME AllocInv, CountsFit, ForwardInc
  PROVE  (DataInv /\ HeaderInv /\ CountInv /\ ExactInv)'
<1> USE DEF AllocInv
<1>1. /\ fwd # None /\ ~fwd.counted /\ sda' = IncDat(fwd.data, 1)
      /\ fwd' = [fwd EXCEPT !.counted = TRUE]
      /\ UNCHANGED <<sdt, sha, shd, live, pend, bulk, scene, history>>
  BY DEF ForwardInc
<1>2. /\ fwd.data \in DataInUse /\ fwd.data \in Data /\ fwd.data \in AnyData
      /\ fwd' # None /\ fwd'.data = fwd.data /\ fwd'.counted /\ MaxSent \in Nat
  <2>1. fwd \in [data : Data, counted : BOOLEAN] BY <1>1 DEF TypeInv, TypeOK
  <2>2. fwd.data \in DataInUse /\ fwd.data \in AnyData BY <1>1, InUse, InUseTypes
  <2>3. fwd' = [data |-> fwd.data, counted |-> TRUE] BY <1>1, <2>1
  <2>4. fwd' # None BY <2>2, <2>3, SomethingUnderWay
  <2> QED BY <2>1, <2>2, <2>3, <2>4, SmbAllocAssumption
<1>a. sda \in Seq(Counts) /\ Len(sda) \in Nat BY TableTypes
<1>b. Len(sda') = Len(sda) BY <1>1, <1>2, <1>a, IncDatTable
<1>3. DataInUse' = DataInUse BY <1>1, <1>2 DEF DataInUse, Reserved, InProgress
<1>4. DataInv'
  <2>1. TextsStored' /\ TextsDistinct'
    BY <1>1, <1>3, <1>b DEF DataInv, TextsStored, TextsDistinct, Stored
  <2>2. PendFresh' BY <1>1, <1>2 DEF DataInv, PendFresh
  <2>3. BulkFresh' BY <1>1, <1>2 DEF DataInv, BulkFresh
  <2> QED BY <2>1, <2>2, <2>3 DEF DataInv
<1>5. \A b : /\ Users(b)' = Users(b) /\ Counted(b) = 0
             /\ Counted(b)' = IF b \in Span(fwd.data) THEN 1 ELSE 0
             /\ Uses(bulk, b)' <=> Uses(bulk, b)
             /\ Uses(pend, b)' <=> Uses(pend, b)
  BY <1>1, <1>2 DEF Users, Counted, Uses
<1>6. \A b : Due(b)' = IF b \in Span(fwd.data) THEN Due(b) + 1 ELSE Due(b)
  <2> TAKE b
  <2>1. bulk # None => bulk.sent \in Nat BY SmbAllocAssumption DEF TypeInv, TypeOK
  <2>2. Cardinality(Users(b)) \in Nat BY DueType
  <2>3. Uses(bulk, b) => bulk # None BY DEF Uses
  <2> QED BY <1>1, <1>5, <2>1, <2>2, <2>3 DEF Due
<1>7. ASSUME NEW b \in 0..(Len(sda) - 1), b \notin Span(fwd.data)
      PROVE  sda'[b + 1] = sda[b + 1]
  <2>1. b + 1 \in 1..Len(sda) /\ (b + 1) - 1 = b BY <1>a
  <2>2. sda[b + 1] \in Counts BY <1>a, <2>1
  <2>3. Visits(fwd.data, b) = 0 BY <1>2, <1>7, VisitsBounds
  <2>4. sda[b + 1] + 1 * 0 = sda[b + 1] /\ sda[b + 1] <= MaxRefs /\ 0 \in {0, 1, 2}
    BY <2>2, SmbAllocAssumption DEF Counts
  <2>5. IncDat(fwd.data, 1)[b + 1] = sda[b + 1] + 1 * 0 BY <1>2, <2>3, <2>4, IncBlock
  <2> QED BY <1>1, <2>4, <2>5
<1>8. ASSUME NEW b \in Span(fwd.data), NEW v \in {0, 1, 2}, Visits(fwd.data, b) = v
      PROVE  /\ sda'[b + 1] = sda[b + 1] + 1 * v
             /\ sda[b + 1] \in Nat /\ Cardinality(Users(b)) \in Nat
             /\ b \in 0..(Len(sda) - 1)
             /\ Enough(fwd.data, b) /\ Limited(fwd.data, b)
  <2>1. /\ b + 1 \in 1..Len(sda) /\ (b + 1) - 1 = b /\ sda[b + 1] \in Nat
        /\ b \in 0..(Len(sda) - 1)
    BY <1>2, BlocksInTable
  <2>2. Cardinality(Users(b)) \in Nat BY DueType
  <2>3. Enough(fwd.data, b) /\ Limited(fwd.data, b) BY <1>2 DEF CountInv
  <2> DEFINE k == Slack(b)
             n == Cardinality(Users(b))
             s == sda[b + 1]
  <2>a. k \in 0..(MaxSent + MaxStray) /\ MaxStray \in Nat BY SlackType
  <2>4. /\ s \in Nat /\ n \in Nat /\ k \in 0..(MaxSent + MaxStray)
        /\ s <= 1 + v * (n + k)
    BY <1>2, <1>5, <1>8, <2>1, <2>2, <2>3, <2>a DEF Limited
  <2>5. n = Cardinality(Users(b)) OBVIOUS
  <2> HIDE DEF k, n, s
  <2>6. s + 1 * v \in Nat /\ s + 1 * v <= 1 + v * ((n + k) + 1)
    <3>1. n + k \in Int BY <1>2, <2>4, <2>a
    <3> QED BY <2>4, <3>1, Scaled
  <2>7. s + 1 * v <= 1 + v * (n + (k + 1)) /\ k + 1 \in 0..(MaxSent + MaxStray + 1)
    <3>1. (n + k) + 1 = n + (k + 1) /\ k + 1 \in 0..(MaxSent + MaxStray + 1)
      BY <1>2, <2>4, <2>a
    <3> QED BY <2>6, <3>1
  <2>8. s + 1 * v <= MaxRefs BY <2>5, <2>6, <2>7, RoomInCount
  <2>9. sda'[b + 1] = s + 1 * v
    BY <1>1, <1>2, <1>8, <2>1, <2>8, IncBlock DEF s
  <2> QED BY <2>1, <2>2, <2>3, <2>9 DEF s
<1>9. CountInv'
  <2> SUFFICES ASSUME NEW e \in DataInUse, NEW b \in Span(e)
               PROVE  (Enough(e, b) /\ Limited(e, b))'
    BY <1>3 DEF CountInv
  <2>1. Enough(e, b) /\ Limited(e, b) BY DEF CountInv
  <2>2. CASE b \notin Span(fwd.data)
    <3>1. sda'[b + 1] = sda[b + 1] BY <1>7, <2>2, BlocksInTable
    <3> QED BY <1>1, <1>5, <1>6, <2>1, <2>2, <3>1 DEF Enough, Limited, Slack
  <2>3. CASE b \in Span(fwd.data)
    <3>1. e = fwd.data BY <1>2, <2>3, Apart
    <3>2. PICK v \in {0, 1, 2} : Visits(e, b) = v BY <1>2, <3>1, VisitsBounds
    <3>3. sda'[b + 1] = sda[b + 1] + 1 * v /\ sda[b + 1] \in Nat BY <1>8, <2>3, <3>1, <3>2
    <3> DEFINE s == sda[b + 1]
               k == Slack(b)
               n == Cardinality(Users(b)) + k
               w == Due(b)
    <3>0. k \in Nat BY SlackType
    <3>4. /\ s \in Nat /\ n \in Int /\ w \in Int /\ s >= 1
          /\ e \notin history.short => s >= 1 + v * (w - 1)
          /\ Cardinality(Users(b)') + Counted(b)' + k = n + 1
          /\ Due(b)' = w + 1 /\ sda'[b + 1] = s + 1 * v
      BY <1>2, <1>5, <1>6, <2>1, <2>3, <3>0, <3>2, <3>3, DueType DEF Enough
    <3>5. s <= 1 + v * n
      <4>1. Cardinality(Users(b)) + Counted(b) + k = n BY <1>2, <1>5, <3>0, DueType
      <4> QED BY <2>1, <3>2, <4>1 DEF Limited
    <3>6. Slack(b)' = k BY <1>1, <1>5 DEF Slack
    <3> HIDE DEF s, k, n, w
    <3>7. /\ s + 1 * v \in Nat /\ s + 1 * v >= s /\ s + 1 * v <= 1 + v * (n + 1)
          /\ e \notin history.short => s + 1 * v >= 1 + v * ((w + 1) - 1)
          /\ 1 * v = v
      BY <3>4, <3>5, Scaled
    <3>8. s + 1 * v >= 1 /\ s + 1 * v >= 1 + v BY <3>4, <3>7
    <3>9. Enough(e, b)' BY <1>1, <3>2, <3>4, <3>7, <3>8 DEF Enough
    <3>10. Limited(e, b)' BY <3>2, <3>4, <3>6, <3>7 DEF Limited
    <3> QED BY <3>9, <3>10
  <2> QED BY <2>2, <2>3
<1>10. ExactInv'
  <2> SUFFICES ASSUME Simple, NEW b \in 0..(Len(sda) - 1) PROVE sda'[b + 1] = Due(b)'
    BY <1>1, <1>b DEF ExactInv, Simple, TailLens, Faults
  <2>1. CASE b \notin Span(fwd.data) BY <1>6, <1>7, <2>1 DEF ExactInv
  <2>2. CASE b \in Span(fwd.data)
    <3>1. fwd.data.tail = 0 BY <1>2 DEF Simple, Data
    <3>2. Visits(fwd.data, b) = 1 BY <1>2, <2>2, <3>1, NoTailVisits
    <3>3. sda'[b + 1] = sda[b + 1] + 1 * 1 /\ Due(b)' = Due(b) + 1 BY <1>6, <1>8, <2>2, <3>2
    <3> QED BY <3>3 DEF ExactInv
  <2> QED BY <2>1, <2>2
<1> QED BY <1>1, <1>4, <1>9, <1>10, HeadersKept

LEMMA ForwardFailsStep ==
  ASSUME AllocInv, ForwardFails
  PROVE  (DataInv /\ HeaderInv /\ CountInv /\ ExactInv)'
<1> USE DEF AllocInv
<1>1. /\ fwd # None /\ fwd.counted /\ sda' = FreedDat(fwd.data) /\ fwd' = None
      /\ UNCHANGED <<sdt, sha, shd, live, pend, bulk, scene, history>>
  BY DEF ForwardFails
<1>2. /\ fwd.data \in DataInUse /\ fwd.data \in Data /\ fwd.data \in AnyData /\ MaxSent \in Nat
  BY <1>1, InUse, InUseTypes, SmbAllocAssumption DEF TypeInv, TypeOK
<1>a. Len(sda') = Len(sda) BY <1>1, <1>2, FreedDatTable, TableTypes
<1>3. DataInUse' \subseteq DataInUse BY <1>1 DEF DataInUse, Reserved, InProgress
<1>4. DataInv'
  <2>1. TextsStored' BY <1>1, <1>3, <1>a DEF DataInv, TextsStored, Stored
  <2>2. TextsDistinct' BY <1>3 DEF DataInv, TextsDistinct
  <2>3. PendFresh' BY <1>1 DEF DataInv, PendFresh
  <2>4. BulkFresh' BY <1>1 DEF DataInv, BulkFresh
  <2> QED BY <2>1, <2>2, <2>3, <2>4 DEF DataInv
<1>5. \A b : /\ Users(b)' = Users(b) /\ Counted(b)' = 0
             /\ Counted(b) = IF b \in Span(fwd.data) THEN 1 ELSE 0
             /\ Uses(bulk, b)' <=> Uses(bulk, b)
             /\ Uses(pend, b)' <=> Uses(pend, b)
  BY <1>1 DEF Users, Counted, Uses
<1>6. \A b : Due(b)' = IF b \in Span(fwd.data) THEN Due(b) - 1 ELSE Due(b)
  <2> TAKE b
  <2>1. bulk # None => bulk.sent \in Nat BY SmbAllocAssumption DEF TypeInv, TypeOK
  <2>2. Cardinality(Users(b)) \in Nat BY DueType
  <2>3. Uses(bulk, b) => bulk # None BY DEF Uses
  <2> QED BY <1>1, <1>5, <2>1, <2>2, <2>3 DEF Due
<1>7. \A b \in 0..(Len(sda) - 1) : b \notin Span(fwd.data) => sda'[b + 1] = sda[b + 1]
  BY <1>1, <1>2, FreedBlock
<1>8. ASSUME NEW b \in Span(fwd.data), NEW v \in {0, 1, 2}, Visits(fwd.data, b) = v
      PROVE  sda[b + 1] \in Nat /\ sda[b + 1] >= 1 + v /\ sda'[b + 1] = sda[b + 1] - v
  <2>1. b \in 0..(Len(sda) - 1) BY <1>2, BlocksInTable
  <2>2. Enough(fwd.data, b) BY <1>2 DEF CountInv
  <2>3. sda[b + 1] \in Nat /\ sda[b + 1] >= 1 + v
    BY <1>2, <1>5, <1>8, <2>1, <2>2, FreedBlock DEF Enough
  <2>4. sda'[b + 1] = IF sda[b + 1] > v THEN sda[b + 1] - v ELSE 0
    BY <1>1, <1>2, <1>8, <2>1, FreedBlock
  <2> QED BY <2>3, <2>4
<1>9. CountInv'
  <2> SUFFICES ASSUME NEW e \in DataInUse', NEW b \in Span(e)
               PROVE  (Enough(e, b) /\ Limited(e, b))'
    BY DEF CountInv
  <2>1. e \in DataInUse BY <1>3
  <2>2. Enough(e, b) /\ Limited(e, b) BY <2>1 DEF CountInv
  <2>3. CASE b \notin Span(fwd.data)
    <3>1. sda'[b + 1] = sda[b + 1] BY <1>7, <2>1, <2>3, BlocksInTable
    <3> QED BY <1>1, <1>5, <1>6, <2>2, <2>3, <3>1 DEF Enough, Limited, Slack
  <2>4. CASE b \in Span(fwd.data)
    <3>1. e = fwd.data BY <1>2, <2>1, <2>4, Apart
    <3>2. PICK v \in {0, 1, 2} : Visits(e, b) = v BY <1>2, <3>1, VisitsBounds
    <3> DEFINE s == sda[b + 1]
               k == Slack(b)
               n == Cardinality(Users(b)) + 1 + k
               w == Due(b)
    <3>0. k \in Nat BY SlackType
    <3>3. /\ s \in Nat /\ s >= 1 + v /\ sda'[b + 1] = s - v BY <1>8, <2>4, <3>1, <3>2
    <3>4. /\ n \in Int /\ w \in Int /\ Due(b)' = w - 1 /\ Counted(b)' = 0
          /\ Cardinality(Users(b)') + Counted(b)' + k = n - 1
      BY <1>2, <1>5, <1>6, <2>4, <3>0, DueType
    <3>5. (e \notin history.short => s >= 1 + v * (w - 1)) /\ s <= 1 + v * n BY <1>5, <2>2, <2>4, <3>2 DEF Enough, Limited
    <3>6. Slack(b)' = k BY <1>1, <1>5 DEF Slack
    <3> HIDE DEF s, k, n, w
    <3>7. /\ s - v >= 1 /\ s - v <= 1 + v * (n - 1)
          /\ e \notin history.short => s - v >= 1 + v * ((w - 1) - 1)
      BY <3>3, <3>4, <3>5, OneLess
    <3>8. Enough(e, b)' BY <1>1, <3>2, <3>3, <3>4, <3>7 DEF Enough
    <3>9. Limited(e, b)' BY <3>2, <3>3, <3>4, <3>6, <3>7 DEF Limited
    <3> QED BY <3>8, <3>9
  <2> QED BY <2>3, <2>4
<1>10. ExactInv'
  <2> SUFFICES ASSUME Simple, NEW b \in 0..(Len(sda) - 1) PROVE sda'[b + 1] = Due(b)'
    BY <1>1, <1>a DEF ExactInv, Simple, TailLens, Faults
  <2>1. CASE b \notin Span(fwd.data) BY <1>6, <1>7, <2>1 DEF ExactInv
  <2>2. CASE b \in Span(fwd.data)
    <3>1. fwd.data.tail = 0 BY <1>2 DEF Simple, Data
    <3>2. Visits(fwd.data, b) = 1 BY <1>2, <2>2, <3>1, NoTailVisits
    <3>3. sda'[b + 1] = sda[b + 1] - 1 /\ Due(b)' = Due(b) - 1 BY <1>6, <1>8, <2>2, <3>2
    <3> QED BY <3>3 DEF ExactInv
  <2> QED BY <2>1, <2>2
<1> QED BY <1>1, <1>4, <1>9, <1>10, HeadersKept

---------------------------------------------------------------------------
(* A message purged, while nothing else is under way *)

LEMMA PurgeKeepsHeaders ==
  ASSUME TypeInv, HeaderInv, NEW m \in live, Purge(m)
  PROVE  HeaderInv'
<1> USE DEF HeaderInv
<1>1. sha' = FreedHdr(m) /\ live' = live \ {m} /\ shd' = shd BY DEF Purge
<1>2. IsFiniteSet(live') BY <1>1, FS_RemoveElement
<1>3. ASSUME NEW k \in live, k # m PROVE Placed(k)'
  <2>1. k.at \in Nat /\ k.blocks \in Nat /\ k.at + k.blocks <= Len(sha)
    BY SmbAllocAssumption DEF TypeInv, TypeOK, HeadersInFile
  <2>2. ASSUME NEW b \in k.at .. k.at + k.blocks - 1
        PROVE  shd'[b + 1] = k.num /\ sha'[b + 1] = 1
    <3>1. shd[b + 1] = k.num /\ sha[b + 1] = 1 BY DEF Placed
    <3>2. b \in 0..(Len(sha) - 1) BY <2>1, TableTypes
    <3>3. b \notin m.at .. m.at + m.blocks - 1 BY <1>3, <3>1 DEF Placed
    <3> QED BY <1>1, <3>1, <3>2, <3>3, HeaderFreed
  <2> QED BY <2>2 DEF Placed
<1> QED BY <1>1, <1>2, <1>3

LEMMA PurgeStep ==
  ASSUME AllocInv, ~Concurrent, NEW m \in live, Purge(m), m.data \notin history.short
  PROVE  (DataInv /\ HeaderInv /\ CountInv /\ ExactInv)'
<1> USE DEF AllocInv
<1>1. /\ pend = None /\ bulk = None /\ fwd = None
      /\ sda' = FreedDat(m.data) /\ live' = live \ {m}
      /\ UNCHANGED <<sdt, pend, bulk, fwd, scene>>
      /\ history' = [history EXCEPT !.spoiled = @ \/ m.data \in history.short]
  BY DEF Purge, BaseFree
<1>b. history'.short = history.short /\ history'.stray = history.stray
  BY <1>1 DEF TypeInv, TypeOK
<1>c. \A b : Slack(b)' = history.stray + MaxSent /\ Slack(b) = history.stray + MaxSent
  BY <1>1, <1>b DEF Slack, Uses
<1>d. history.stray \in Nat BY SlackType
<1>2. m.data \in DataInUse /\ m.data \in Data /\ m.data \in AnyData /\ MaxSent \in Nat
  BY InUse, InUseTypes, DataTypes, SmbAllocAssumption
<1>a. Len(sda') = Len(sda) BY <1>1, <1>2, FreedDatTable, TableTypes
<1>3. /\ DataInUse' = {k.data : k \in live'} /\ DataInUse' \subseteq DataInUse
  BY <1>1 DEF DataInUse, Reserved, InProgress
<1>4. DataInv'
  <2>1. TextsStored' BY <1>1, <1>3, <1>a DEF DataInv, TextsStored, Stored
  <2>2. TextsDistinct' BY <1>3 DEF DataInv, TextsDistinct
  <2>3. PendFresh' BY <1>1 DEF PendFresh
  <2>4. BulkFresh' BY <1>1 DEF BulkFresh
  <2> QED BY <2>1, <2>2, <2>3, <2>4 DEF DataInv
<1>5. \A b : /\ Counted(b) = 0 /\ Counted(b)' = 0 /\ ~Uses(bulk, b) /\ ~Uses(bulk, b)'
             /\ ~Uses(pend, b) /\ ~Uses(pend, b)'
  BY <1>1 DEF Counted, Uses
<1>6. \A b : Cardinality(Users(b)') =
               IF b \in Span(m.data) THEN Cardinality(Users(b)) - 1 ELSE Cardinality(Users(b))
  BY <1>1, UsersRemove DEF HeaderInv
<1>7. \A b : /\ Due(b) = Cardinality(Users(b)) /\ Due(b)' = Cardinality(Users(b)')
             /\ Cardinality(Users(b)) \in Nat
  BY <1>5, <1>6, DueType DEF Due
<1>8. \A b \in 0..(Len(sda) - 1) : b \notin Span(m.data) => sda'[b + 1] = sda[b + 1]
  BY <1>1, <1>2, FreedBlock
<1>9. CountInv'
  <2> SUFFICES ASSUME NEW e \in DataInUse', NEW b \in Span(e)
               PROVE  (Enough(e, b) /\ Limited(e, b))'
    BY DEF CountInv
  <2>1. e \in DataInUse BY <1>3
  <2>2. Enough(e, b) /\ Limited(e, b) BY <2>1 DEF CountInv
  <2>3. CASE b \notin Span(m.data)
    <3>1. sda'[b + 1] = sda[b + 1] BY <1>8, <2>1, <2>3, BlocksInTable
    <3> QED BY <1>5, <1>6, <1>7, <1>b, <1>c, <2>2, <2>3, <3>1 DEF Enough, Limited
  <2>4. CASE b \in Span(m.data)
    <3>1. e = m.data BY <1>2, <2>1, <2>4, Apart
    <3>2. PICK v \in {0, 1, 2} : Visits(e, b) = v BY <1>2, <3>1, VisitsBounds
    <3>3. PICK k \in live : k # m /\ k.data = e BY <1>1, <1>3
    <3> DEFINE s == sda[b + 1]
               u == Cardinality(Users(b))
               n == u + (history.stray + MaxSent)
    <3>4. u \in Nat /\ u >= 2
      <4>1. m \in Users(b) /\ k \in Users(b) BY <2>4, <3>1, <3>3 DEF Users
      <4>2. IsFiniteSet(Users(b)) /\ u \in Nat BY UsersFinite DEF HeaderInv
      <4>3. IsFiniteSet(Users(b) \ {m}) /\ Cardinality(Users(b) \ {m}) = u - 1
        BY <4>1, <4>2, FS_RemoveElement
      <4>4. Cardinality(Users(b) \ {m}) # 0 BY <3>3, <4>1, <4>3, FS_EmptySet
      <4>5. Cardinality(Users(b) \ {m}) \in Nat BY <4>3, FS_CardinalityType
      <4> QED BY <4>2, <4>3, <4>4, <4>5
    <3>5. b \in 0..(Len(sda) - 1) /\ s \in Nat BY <1>2, <2>4, BlocksInTable
    <3>6. s >= 1 + v * (u - 1) /\ s <= 1 + v * n
      <4>1. e \notin history.short BY <3>1
      <4> QED BY <1>2, <1>5, <1>7, <1>c, <1>d, <2>2, <3>2, <3>4, <4>1 DEF Enough, Limited
    <3>7. sda'[b + 1] = IF s > v THEN s - v ELSE 0
      BY <1>1, <1>2, <3>1, <3>2, <3>5, FreedBlock
    <3>8. /\ Due(b)' = u - 1 /\ Counted(b)' = 0
          /\ Cardinality(Users(b)') + Counted(b)' + Slack(b)' = n - 1
          /\ n \in Int
      BY <1>2, <1>5, <1>6, <1>7, <1>c, <1>d, <2>4, <3>4
    <3> HIDE DEF s, u, n
    <3>9. s >= 1 + v
      <4>1. v * 1 <= v * (u - 1) /\ v * (u - 1) \in Int
        <5>1. 1 <= u - 1 /\ u - 1 \in Int BY <3>4
        <5> QED BY <5>1, Grown
      <4> QED BY <3>5, <3>6, <4>1
    <3>10. /\ s - v >= 1 /\ s - v >= 1 + v * ((u - 1) - 1) /\ s - v <= 1 + v * (n - 1)
           /\ sda'[b + 1] = s - v
      BY <3>4, <3>5, <3>6, <3>7, <3>8, <3>9, OneLess
    <3>11. Enough(e, b)' BY <3>2, <3>8, <3>10 DEF Enough
    <3>12. Limited(e, b)' BY <3>2, <3>8, <3>10 DEF Limited
    <3> QED BY <3>11, <3>12
  <2> QED BY <2>3, <2>4
<1>10. ExactInv'
  <2> SUFFICES ASSUME Simple, NEW b \in 0..(Len(sda) - 1) PROVE sda'[b + 1] = Due(b)'
    BY <1>1, <1>a DEF ExactInv, Simple, TailLens, Faults
  <2>1. CASE b \notin Span(m.data) BY <1>6, <1>7, <1>8, <2>1 DEF ExactInv
  <2>2. CASE b \in Span(m.data)
    <3>1. m.data.tail = 0 BY <1>2 DEF Simple, Data
    <3>2. Visits(m.data, b) = 1 BY <1>2, <2>2, <3>1, NoTailVisits
    <3>3. sda'[b + 1] = IF sda[b + 1] > 1 THEN sda[b + 1] - 1 ELSE 0
      BY <1>1, <1>2, <3>2, FreedBlock
    <3>4. sda[b + 1] = Cardinality(Users(b)) /\ Due(b)' = Cardinality(Users(b)) - 1
      BY <1>6, <1>7, <2>2 DEF ExactInv
    <3>5. Cardinality(Users(b)) >= 1
      <4>1. m \in Users(b) BY <2>2 DEF Users
      <4>2. IsFiniteSet(Users(b)) /\ Cardinality(Users(b)) \in Nat BY UsersFinite DEF HeaderInv
      <4>3. Cardinality(Users(b)) # 0 BY <4>1, <4>2, FS_EmptySet
      <4> QED BY <4>2, <4>3
    <3> QED BY <1>7, <3>3, <3>4, <3>5
  <2> QED BY <2>1, <2>2
<1> QED BY <1>4, <1>9, <1>10, PurgeKeepsHeaders

---------------------------------------------------------------------------
(* A mailing or a forwarding that ends without counting its references *)

\* Counts stay as they are where no more is due, and more is left over.
LEMMA CountsKept ==
  ASSUME AllocInv, UNCHANGED sda, DataInUse' \subseteq DataInUse,
         history.short \subseteq history'.short,
         \A d \in DataInUse' : \A b \in Span(d) :
           /\ Counted(b)' \in {0, Counted(b)}
           /\ d \notin history'.short => Due(b)' \in Int /\ Due(b)' <= Due(b)
           /\ Cardinality(Users(b)') + Counted(b)' + Slack(b)' \in Int
           /\ Cardinality(Users(b)) + Counted(b) + Slack(b)
                <= Cardinality(Users(b)') + Counted(b)' + Slack(b)'
  PROVE  CountInv'
<1> USE DEF AllocInv
<1> SUFFICES ASSUME NEW e \in DataInUse', NEW b \in Span(e)
             PROVE  (Enough(e, b) /\ Limited(e, b))'
  BY DEF CountInv
<1>1. e \in DataInUse OBVIOUS
<1>2. Enough(e, b) /\ Limited(e, b) BY <1>1 DEF CountInv
<1>3. PICK v \in {0, 1, 2} : Visits(e, b) = v BY <1>1, InUseTypes, VisitsBounds
<1>4. sda[b + 1] \in Nat BY <1>1, BlocksInTable
<1>5. Enough(e, b)'
  <2>1. ASSUME e \notin history'.short PROVE sda[b + 1] >= 1 + v * (Due(b)' - 1)
    <3>1. sda[b + 1] >= 1 + v * (Due(b) - 1) BY <1>2, <1>3, <2>1 DEF Enough
    <3>2. Due(b)' \in Int /\ Due(b) \in Int /\ Due(b)' <= Due(b) BY <2>1, DueType
    <3> DEFINE n == Due(b)' - 1
               m == Due(b) - 1
    <3>3. n \in Int /\ m \in Int /\ n <= m BY <3>2
    <3> HIDE DEF n, m
    <3>4. v * n <= v * m /\ v * n \in Int /\ v * m \in Int BY <3>3, Grown
    <3>5. sda[b + 1] >= 1 + v * m BY <3>1 DEF m
    <3>6. sda[b + 1] >= 1 + v * n BY <1>4, <3>4, <3>5
    <3> QED BY <3>6 DEF n
  <2> QED BY <1>2, <1>3, <2>1 DEF Enough
<1>6. Limited(e, b)'
  <2> DEFINE n == Cardinality(Users(b)) + Counted(b) + Slack(b)
             m == Cardinality(Users(b)') + Counted(b)' + Slack(b)'
  <2>1. n \in Int BY DueType, SlackType
  <2>2. m \in Int /\ n <= m OBVIOUS
  <2>3. sda[b + 1] <= 1 + v * n BY <1>2, <1>3 DEF Limited
  <2> HIDE DEF n, m
  <2>4. v * n <= v * m /\ v * n \in Int /\ v * m \in Int BY <2>1, <2>2, Grown
  <2>5. sda[b + 1] <= 1 + v * m BY <1>4, <2>3, <2>4
  <2> QED BY <1>3, <2>5 DEF Limited, m
<1> QED BY <1>5, <1>6

LEMMA BulkUncountedStep ==
  ASSUME AllocInv, BulkOpenFails \/ BulkCrash
  PROVE  (DataInv /\ HeaderInv /\ CountInv /\ ExactInv)'
<1> USE DEF AllocInv
<1>1. /\ bulk # None /\ bulk' = None /\ UNCHANGED <<sda, sdt, live, pend, fwd, scene>>
      /\ history' = IF bulk.sent > 1 THEN [history EXCEPT !.short = @ \union {bulk.data}]
                                    ELSE history
      /\ ~Simple
  BY DEF BulkOpenFails, BulkCrash, BulkUncounted, Simple
<1>2. /\ bulk.data \in DataInUse /\ bulk.sent \in Nat
      /\ history'.short = IF bulk.sent > 1 THEN history.short \union {bulk.data}
                                          ELSE history.short
      /\ history'.stray = history.stray
  BY <1>1, InUse, SmbAllocAssumption DEF TypeInv, TypeOK
<1>3. HeaderInv'
  <2>1. UNCHANGED <<sha, shd>> \/ HeaderAbandoned("SELFPACK") BY DEF BulkOpenFails, BulkCrash
  <2> QED BY <1>1, <2>1, AbandonedKeepsHeaders
<1>4. DataInUse' \subseteq DataInUse BY <1>1 DEF DataInUse, Reserved, InProgress
<1>5. DataInv'
  <2>1. TextsStored' BY <1>1, <1>4 DEF DataInv, TextsStored, Stored
  <2>2. TextsDistinct' BY <1>4 DEF DataInv, TextsDistinct
  <2>3. PendFresh' BY <1>1 DEF DataInv, PendFresh
  <2>4. BulkFresh' BY <1>1 DEF BulkFresh
  <2> QED BY <2>1, <2>2, <2>3, <2>4 DEF DataInv
<1>6. \A b : /\ Users(b)' = Users(b) /\ Counted(b)' = Counted(b) /\ ~Uses(bulk, b)'
             /\ Uses(pend, b)' <=> Uses(pend, b)
  BY <1>1 DEF Users, Counted, Uses
<1>7. \A b : Due(b)' = IF Uses(bulk, b) THEN Due(b) - (1 - bulk.sent) ELSE Due(b)
  <2> TAKE b
  <2>1. Cardinality(Users(b)) \in Nat /\ Counted(b) \in {0, 1} BY DueType
  <2> QED BY <1>2, <1>6, <2>1 DEF Due
<1>8. CountInv'
  <2>1. ASSUME NEW d \in DataInUse', NEW b \in Span(d), d \notin history'.short
        PROVE  Due(b)' \in Int /\ Due(b)' <= Due(b)
    <3>1. Due(b) \in Int BY DueType
    <3>2. CASE ~Uses(bulk, b) BY <1>7, <3>1, <3>2
    <3>3. CASE Uses(bulk, b)
      <4>1. d = bulk.data BY <1>2, <1>4, <3>3, Apart DEF Uses
      <4>2. bulk.sent <= 1 BY <1>2, <2>1, <4>1
      <4> QED BY <1>2, <1>7, <3>1, <3>3, <4>2
    <3> QED BY <3>2, <3>3
  <2>2. ASSUME NEW b
        PROVE  /\ Cardinality(Users(b)') + Counted(b)' + Slack(b)' \in Int
               /\ Cardinality(Users(b)) + Counted(b) + Slack(b)
                    <= Cardinality(Users(b)') + Counted(b)' + Slack(b)'
    <3>1. Slack(b)' = history.stray + MaxSent BY <1>2, <1>6 DEF Slack
    <3>2. Slack(b) <= history.stray + MaxSent BY SlackType DEF Slack
    <3>3. /\ history.stray \in Nat /\ MaxSent \in Nat /\ Slack(b) \in Nat
          /\ Cardinality(Users(b)) \in Nat /\ Counted(b) \in {0, 1}
      BY SlackType, DueType
    <3> QED BY <1>6, <3>1, <3>2, <3>3
  <2>3. history.short \subseteq history'.short BY <1>2
  <2> QED BY <1>1, <1>4, <1>6, <2>1, <2>2, <2>3, CountsKept
<1>9. ExactInv' BY <1>1 DEF ExactInv, Simple, TailLens, Faults
<1> QED BY <1>3, <1>5, <1>8, <1>9

LEMMA ForwardGivenUpStep ==
  ASSUME AllocInv, ForwardOpenFails \/ ForwardLost, UNCHANGED sda
  PROVE  (DataInv /\ HeaderInv /\ CountInv /\ ExactInv)'
<1> USE DEF AllocInv
<1>1. /\ fwd # None /\ fwd' = None /\ UNCHANGED <<sda, sdt, live, pend, bulk, scene>>
      /\ ~Simple
  BY DEF ForwardOpenFails, ForwardLost, Simple
<1>2. /\ history'.short = history.short
      /\ history'.stray = IF fwd.counted THEN history.stray + 1 ELSE history.stray
  BY DEF ForwardOpenFails, ForwardLost, TypeInv, TypeOK
<1>3. HeaderInv'
  <2>1. UNCHANGED <<sha, shd>> \/ HeaderAbandoned("SELFPACK")
    BY DEF ForwardOpenFails, ForwardLost
  <2> QED BY <1>1, <2>1, AbandonedKeepsHeaders
<1>4. DataInUse' \subseteq DataInUse BY <1>1 DEF DataInUse, Reserved, InProgress
<1>5. DataInv'
  <2>1. TextsStored' BY <1>1, <1>4 DEF DataInv, TextsStored, Stored
  <2>2. TextsDistinct' BY <1>4 DEF DataInv, TextsDistinct
  <2>3. PendFresh' BY <1>1 DEF DataInv, PendFresh
  <2>4. BulkFresh' BY <1>1 DEF DataInv, BulkFresh
  <2> QED BY <2>1, <2>2, <2>3, <2>4 DEF DataInv
<1>6. \A b : /\ Users(b)' = Users(b) /\ Counted(b)' = 0
             /\ Counted(b) = IF Uses(fwd, b) /\ fwd.counted THEN 1 ELSE 0
             /\ Uses(pend, b)' <=> Uses(pend, b)
             /\ Uses(bulk, b)' <=> Uses(bulk, b)
  BY <1>1 DEF Users, Counted, Uses
<1>7. CountInv'
  <2>1. ASSUME NEW b PROVE Due(b)' \in Int /\ Due(b)' <= Due(b)
    <3>1. bulk # None => bulk.sent \in Nat BY SmbAllocAssumption DEF TypeInv, TypeOK
    <3>2. Cardinality(Users(b)) \in Nat BY DueType
    <3>3. Uses(bulk, b) => bulk # None BY DEF Uses
    <3> QED BY <1>1, <1>6, <3>1, <3>2, <3>3 DEF Due
  <2>2. ASSUME NEW b
        PROVE  /\ Cardinality(Users(b)') + Counted(b)' + Slack(b)' \in Int
               /\ Cardinality(Users(b)) + Counted(b) + Slack(b)
                    <= Cardinality(Users(b)') + Counted(b)' + Slack(b)'
    <3>1. Slack(b)' = IF fwd.counted THEN Slack(b) + 1 ELSE Slack(b)
      <4>1. history.stray \in Nat /\ MaxSent \in Nat BY SlackType
      <4> QED BY <1>1, <1>2, <1>6, <4>1 DEF Slack
    <3>2. Slack(b) \in Nat /\ Cardinality(Users(b)) \in Nat BY SlackType, DueType
    <3> QED BY <1>6, <3>1, <3>2
  <2> QED BY <1>1, <1>2, <1>4, <1>6, <2>1, <2>2, CountsKept
<1>8. ExactInv' BY <1>1 DEF ExactInv, Simple, TailLens, Faults
<1> QED BY <1>3, <1>5, <1>7, <1>8

\* The body's reference is taken back, and the tail's stays: a count loses no more
\* than was added for the forwarding.
LEMMA ForwardHalfStep ==
  ASSUME AllocInv, ForwardLost, sda' = FreedDat([fwd.data EXCEPT !.tail = 0]),
         UNCHANGED <<sha, shd>>
  PROVE  (DataInv /\ HeaderInv /\ CountInv /\ ExactInv)'
<1> USE DEF AllocInv
<1>1. /\ fwd # None /\ fwd.counted /\ fwd' = None /\ ~Simple
      /\ UNCHANGED <<sdt, live, pend, bulk, scene>>
  BY DEF ForwardLost, Simple
<1>2. /\ fwd.data \in DataInUse /\ fwd.data \in AnyData
      /\ history'.short = history.short /\ history'.stray = history.stray + 1
  BY <1>1, InUse, InUseTypes DEF ForwardLost, TypeInv, TypeOK
<1> DEFINE d == fwd.data
           body == [d EXCEPT !.tail = 0]
<1>3. body \in AnyData /\ \A b : Visits(body, b) \in {0, 1, 2} /\ Visits(body, b) <= Visits(d, b)
  <2>1. body \in AnyData BY <1>2, BodyOnly
  <2>2. body.at = d.at /\ body.body = d.body /\ body.tail = 0 /\ d.body \in Nat
    BY <1>2 DEF AnyData
  <2>3. Span(body) = BodyBlocks(d)
    <3>1. body.body + body.tail = d.body BY <2>2
    <3> QED BY <2>2, <3>1 DEF Span, BodyBlocks
  <2> HIDE DEF body
  <2>4. \A b : Visits(body, b) = IF b \in BodyBlocks(d) THEN 1 ELSE 0
    BY <2>1, <2>2, <2>3, NoTailVisits
  <2> QED BY <2>1, <2>4 DEF Visits
<1>a. /\ Len(sda') = Len(sda)
      /\ \A b \in 0..(Len(sda) - 1) :
           sda[b + 1] \in Nat /\ sda'[b + 1] =
             IF sda[b + 1] > Visits(body, b) THEN sda[b + 1] - Visits(body, b) ELSE 0
  BY <1>3, FreedDatTable, FreedBlock, TableTypes
<1> HIDE DEF body
<1>4. DataInUse' \subseteq DataInUse BY <1>1 DEF DataInUse, Reserved, InProgress
<1>5. DataInv'
  <2>1. TextsStored' BY <1>1, <1>4, <1>a DEF DataInv, TextsStored, Stored
  <2>2. TextsDistinct' BY <1>4 DEF DataInv, TextsDistinct
  <2>3. PendFresh' BY <1>1 DEF DataInv, PendFresh
  <2>4. BulkFresh' BY <1>1 DEF DataInv, BulkFresh
  <2> QED BY <2>1, <2>2, <2>3, <2>4 DEF DataInv
<1>6. \A b : /\ Users(b)' = Users(b) /\ Counted(b)' = 0
             /\ Counted(b) = IF b \in Span(d) THEN 1 ELSE 0
             /\ Slack(b) \in Nat /\ Slack(b)' = Slack(b) + 1
             /\ Due(b) \in Int /\ Due(b)' = Due(b) - Counted(b)
  <2> TAKE b
  <2>1. /\ Users(b)' = Users(b) /\ Counted(b)' = 0
        /\ Counted(b) = IF b \in Span(d) THEN 1 ELSE 0
        /\ Uses(bulk, b)' <=> Uses(bulk, b)
        /\ Uses(pend, b)' <=> Uses(pend, b)
    BY <1>1 DEF Users, Counted, Uses
  <2>2. bulk # None => bulk.sent \in Nat BY SmbAllocAssumption DEF TypeInv, TypeOK
  <2>3. Cardinality(Users(b)) \in Nat /\ Due(b) \in Int BY DueType
  <2>4. Uses(bulk, b) => bulk # None BY DEF Uses
  <2>5. Due(b)' = Due(b) - Counted(b) BY <1>1, <2>1, <2>2, <2>3, <2>4 DEF Due
  <2>6. Slack(b) \in Nat /\ Slack(b)' = Slack(b) + 1
    BY <1>2, <2>1, SlackType DEF Slack
  <2> QED BY <2>1, <2>3, <2>5, <2>6
<1>7. CountInv'
  <2> SUFFICES ASSUME NEW e \in DataInUse', NEW b \in Span(e)
               PROVE  (Enough(e, b) /\ Limited(e, b))'
    BY DEF CountInv
  <2>1. e \in DataInUse BY <1>4
  <2>2. Enough(e, b) /\ Limited(e, b) BY <2>1 DEF CountInv
  <2>3. b \in 0..(Len(sda) - 1) BY <2>1, BlocksInTable
  <2>4. PICK v \in {0, 1, 2} : Visits(e, b) = v BY <2>1, InUseTypes, VisitsBounds
  <2> DEFINE s == sda[b + 1]
             c == Counted(b)
             n == Cardinality(Users(b)) + c + Slack(b)
             w == Due(b)
  <2>5. s \in Nat /\ n \in Int /\ w \in Int /\ c \in {0, 1}
    BY <1>6, <1>a, <2>3, DueType
  <2>6. /\ s >= 1 /\ (e \notin history.short => s >= 1 + v * (w - 1))
        /\ (c = 1 => s >= 1 + v) /\ s <= 1 + v * n
    BY <2>2, <2>4 DEF Enough, Limited
  <2>7. /\ sda'[b + 1] \in Nat /\ sda'[b + 1] <= s
        /\ IF c = 1 THEN sda'[b + 1] >= s - v ELSE sda'[b + 1] = s
    <3> DEFINE u == Visits(body, b)
    <3>1. u \in {0, 1, 2} /\ u <= Visits(d, b) BY <1>3
    <3>2. sda'[b + 1] = IF s > u THEN s - u ELSE 0 BY <1>a, <2>3
    <3> HIDE DEF u, s, c
    <3>3. CASE b \in Span(d)
      <4>1. e = d BY <1>2, <2>1, <3>3, Apart
      <4>2. u <= v BY <2>4, <3>1, <4>1
      <4>3. c = 1 BY <1>6, <3>3 DEF c
      <4> QED BY <2>5, <2>6, <3>1, <3>2, <4>2, <4>3
    <3>4. CASE b \notin Span(d)
      <4>1. Visits(d, b) = 0 BY <1>2, <3>4, VisitsBounds
      <4>2. u = 0 BY <3>1, <4>1
      <4>3. c = 0 BY <1>6, <3>4 DEF c
      <4> QED BY <2>5, <2>6, <3>2, <4>2, <4>3
    <3> QED BY <3>3, <3>4
  <2>8. Due(b)' = w - c /\ Cardinality(Users(b)') + Counted(b)' + Slack(b)' = n + 1 - c
    BY <1>6, <2>5, DueType
  <2>9. c = 0 => s <= 1 + v * (n + 1)
    <3> HIDE DEF s, c, n, w
    <3>1. v * n \in Int /\ v * (n + 1) = v * n + v BY <2>5
    <3> QED BY <2>5, <2>6, <3>1
  <2> HIDE DEF s, c, n, w
  <2>10. e \notin history.short => sda'[b + 1] >= 1 + v * ((w - c) - 1)
    <3>1. CASE c = 0 BY <2>5, <2>6, <2>7, <3>1
    <3>2. CASE c = 1
      <4>1. v * (w - 1) \in Int /\ v * ((w - 1) - 1) = v * (w - 1) - v BY <2>5
      <4> QED BY <2>5, <2>6, <2>7, <3>2, <4>1
    <3> QED BY <2>5, <3>1, <3>2
  <2>11. sda'[b + 1] >= 1 BY <2>5, <2>6, <2>7
  <2>12. Enough(e, b)' BY <1>2, <1>6, <2>4, <2>8, <2>10, <2>11 DEF Enough
  <2>13. sda'[b + 1] <= 1 + v * (n + 1 - c)
    <3>1. CASE c = 0
      <4>1. n + 1 - c = n + 1 BY <2>5, <3>1
      <4>2. v * (n + 1) \in Int BY <2>5
      <4> QED BY <2>5, <2>7, <2>9, <3>1, <4>1, <4>2
    <3>2. CASE c = 1
      <4>1. n + 1 - c = n BY <2>5, <3>2
      <4>2. v * n \in Int BY <2>5
      <4> QED BY <2>5, <2>6, <2>7, <4>1, <4>2
    <3> QED BY <2>5, <3>1, <3>2
  <2>14. Limited(e, b)' BY <2>4, <2>8, <2>13 DEF Limited
  <2> QED BY <2>12, <2>14
<1>8. HeaderInv' BY <1>1, HeadersKept
<1>9. ExactInv' BY <1>1 DEF ExactInv, Simple, TailLens, Faults
<1> QED BY <1>5, <1>7, <1>8, <1>9

---------------------------------------------------------------------------
(* The invariant holds *)

LEMMA AllocInit == Init => AllocInv
<1> SUFFICES ASSUME Init PROVE AllocInv OBVIOUS
<1>1. /\ sda = <<>> /\ live = {} /\ pend = None /\ bulk = None /\ fwd = None BY DEF Init
<1>2. TypeInv BY TypeInit
<1>3. DataInUse = {} BY <1>1 DEF DataInUse, Reserved, InProgress
<1>4. DataInv
  BY <1>1, <1>3 DEF DataInv, TextsStored, TextsDistinct, PendFresh, BulkFresh
<1>5. HeaderInv BY <1>1, FS_EmptySet DEF HeaderInv
<1>6. CountInv BY <1>3 DEF CountInv
<1>7. ExactInv BY <1>1 DEF ExactInv
<1> QED BY <1>2, <1>4, <1>5, <1>6, <1>7 DEF AllocInv

LEMMA AllocStep == OneAtATime /\ AllocInv /\ [Next]_vars /\ ~Spoiled' => AllocInv'
<1> SUFFICES ASSUME OneAtATime, AllocInv, [Next]_vars, ~Spoiled' PROVE AllocInv' OBVIOUS
<1>0. CountsFit /\ ~Concurrent BY DEF OneAtATime
<1> DEFINE Rest == DataInv /\ HeaderInv /\ CountInv /\ ExactInv
<1>1. ASSUME NEW d \in NewData, NEW s \in Storages, PostData(d, s) \/ BulkData(d, s) PROVE Rest'
  <2>1. /\ StoreText(d, s) /\ BaseFree /\ UNCHANGED <<sha, shd, live, fwd, scene, history>>
        /\ \/ pend' = [data |-> d, storage |-> s] /\ UNCHANGED bulk
           \/ bulk = None /\ bulk' = [data |-> d, sent |-> 0] /\ UNCHANGED pend
    BY <1>1 DEF PostData, BulkData
  <2>2. (DataInv /\ CountInv /\ ExactInv)' BY <2>1, NewText
  <2>3. HeaderInv' BY <2>1, HeadersKept DEF AllocInv
  <2> QED BY <2>2, <2>3
<1>2. ASSUME NEW num \in Nums, NEW n \in HdrLens, NEW p \in 0..Len(sha),
             PostHeader(num, p, n) \/ BulkHeader(num, p, n) \/ ForwardHeader(num, p, n)
      PROVE  Rest'
  BY <1>2, PostHeaderStep, BulkHeaderStep, ForwardHeaderStep
<1>3. ASSUME PostHeaderFails \/ PostTextFails \/ PostCrash PROVE Rest' BY <1>3, PendFails
<1>4. ASSUME BulkNoUser PROVE Rest' BY <1>4, BulkNoUserStep
<1>5. ASSUME BulkEnd PROVE Rest' BY <1>0, <1>5, BulkEndStep
<1>6. ASSUME NEW m \in live, ForwardLoad(m) PROVE Rest' BY <1>6, ForwardLoadStep
<1>7. ASSUME NEW m \in live, Purge(m) PROVE Rest'
  <2>1. m.data \notin history.short
    BY <1>7 DEF Purge, Spoiled, AllocInv, TypeInv, TypeOK
  <2> QED BY <1>0, <1>7, <2>1, PurgeStep
<1>8. ASSUME ForwardInc PROVE Rest' BY <1>0, <1>8, ForwardIncStep
<1>9. ASSUME ForwardFails PROVE Rest' BY <1>9, ForwardFailsStep
<1>10. ASSUME UNCHANGED vars PROVE Rest'
  <2>1. DataInUse' = DataInUse BY <1>10 DEF vars, DataInUse, Reserved, InProgress
  <2>2. DataInv'
    BY <1>10, <2>1 DEF vars, AllocInv, DataInv, TextsStored, TextsDistinct, PendFresh,
       BulkFresh, Stored
  <2>3. HeaderInv' BY <1>10, HeadersKept DEF vars, AllocInv
  <2>4. \A b : Due(b)' = Due(b) /\ Counted(b)' = Counted(b) /\ Users(b)' = Users(b)
               /\ (Uses(bulk, b)' <=> Uses(bulk, b))
    BY <1>10 DEF vars, Due, Users, Counted, Uses
  <2>5. (CountInv /\ ExactInv)'
    BY <1>10, <2>1, <2>4 DEF vars, AllocInv, CountInv, Enough, Limited, Slack, ExactInv,
       Simple, TailLens, Faults
  <2> QED BY <2>2, <2>3, <2>5
<1>11. ASSUME BulkOpenFails \/ BulkCrash PROVE Rest' BY <1>11, BulkUncountedStep
<1>12. ASSUME ForwardOpenFails \/ ForwardLost PROVE Rest'
  <2>1. CASE UNCHANGED sda BY <1>12, <2>1, ForwardGivenUpStep
  <2>2. CASE ~UNCHANGED sda
    <3>1. /\ ForwardLost /\ sda' = FreedDat([fwd.data EXCEPT !.tail = 0])
          /\ UNCHANGED <<sha, shd>>
      BY <1>12, <2>2 DEF ForwardOpenFails, ForwardLost, StoppedShort
    <3> QED BY <3>1, ForwardHalfStep
  <2> QED BY <2>1, <2>2
<1>13. Rest'
  BY <1>1, <1>2, <1>3, <1>4, <1>5, <1>6, <1>7, <1>8, <1>9, <1>10, <1>11, <1>12 DEF Next
<1> QED BY <1>13, TypeStep DEF AllocInv

\* What was spoiled stays so; and nothing is short where only headers fail.
LEMMA SpoiledStep == TypeInv /\ [Next]_vars /\ Spoiled => Spoiled'
BY DEF TypeInv, TypeOK, Next, vars, Spoiled, PostData, BulkData, PostHeader, BulkHeader,
   ForwardHeader, PostHeaderFails, PostTextFails, PostCrash, BulkNoUser, BulkEnd,
   BulkOpenFails, BulkCrash, BulkUncounted, ForwardLoad, Purge, ForwardInc, ForwardFails,
   ForwardOpenFails, ForwardLost

LEMMA QuietStep == TypeInv /\ QuietInv /\ [Next]_vars => QuietInv'
<1> SUFFICES ASSUME TypeInv, QuietInv, [Next]_vars, Simple'
             PROVE  history'.short = {} /\ ~Spoiled'
  BY DEF QuietInv
<1>1. UNCHANGED scene
  BY DEF Next, vars, PostData, BulkData, PostHeader, BulkHeader, ForwardHeader,
     PostHeaderFails, PostTextFails, PostCrash, BulkNoUser, BulkEnd, BulkOpenFails,
     BulkCrash, BulkUncounted, ForwardLoad, Purge, ForwardInc, ForwardFails,
     ForwardOpenFails, ForwardLost
<1>2. Simple BY <1>1 DEF Simple, TailLens, Faults
<1>3. history.short = {} /\ ~history.spoiled BY <1>2 DEF QuietInv, Spoiled
<1>4. ~BulkOpenFails /\ ~BulkCrash BY <1>2 DEF Simple, BulkOpenFails, BulkCrash
<1> QED
  BY <1>3, <1>4
     DEF TypeInv, TypeOK, Next, vars, Spoiled, PostData, BulkData, PostHeader, BulkHeader,
     ForwardHeader, PostHeaderFails, PostTextFails, PostCrash, BulkNoUser, BulkEnd,
     ForwardLoad, Purge, ForwardInc, ForwardFails, ForwardOpenFails, ForwardLost

\* Headers keep apart whatever else is under way, and however large a base gets.
LEMMA HeaderStep == TypeInv /\ HeaderInv /\ [Next]_vars => HeaderInv'
<1> SUFFICES ASSUME TypeInv, HeaderInv, [Next]_vars PROVE HeaderInv' OBVIOUS
<1>1. ASSUME UNCHANGED <<live, sha, shd>> PROVE HeaderInv' BY <1>1, HeadersKept
<1>2. ASSUME NEW d \in NewData, NEW s \in Storages, PostData(d, s) \/ BulkData(d, s)
      PROVE  HeaderInv'
  BY <1>1, <1>2 DEF PostData, BulkData
<1>3. ASSUME NEW num \in Nums, NEW n \in HdrLens, NEW p \in 0..Len(sha),
             PostHeader(num, p, n) \/ BulkHeader(num, p, n) \/ ForwardHeader(num, p, n)
      PROVE  HeaderInv'
  <2>1. PICK d \in Data, storage \in Storages \union {"SELFPACK"} :
          AddHeader(d, storage, num, p, n)
    BY <1>3 DEF PostHeader, BulkHeader, ForwardHeader, TypeInv, TypeOK
  <2> QED BY <2>1, AddHeaderKeepsHeaders
<1>4. ASSUME PostCrash \/ BulkOpenFails \/ BulkCrash \/ ForwardLost PROVE HeaderInv'
  <2>1. PICK storage \in Storages \union {"SELFPACK"} :
          UNCHANGED <<sha, shd>> \/ HeaderAbandoned(storage)
    BY <1>4 DEF PostCrash, BulkOpenFails, BulkCrash, ForwardLost, TypeInv, TypeOK
  <2>2. UNCHANGED live BY <1>4 DEF PostCrash, BulkOpenFails, BulkCrash, BulkUncounted, ForwardLost
  <2> QED BY <2>1, <2>2, AbandonedKeepsHeaders
<1>5. ASSUME \/ PostHeaderFails \/ PostTextFails \/ BulkNoUser \/ BulkEnd
             \/ ForwardInc \/ ForwardFails \/ ForwardOpenFails
      PROVE  HeaderInv'
  BY <1>1, <1>5
     DEF PostHeaderFails, PostTextFails, BulkNoUser, BulkEnd, ForwardInc, ForwardFails,
         ForwardOpenFails
<1>6. ASSUME NEW m \in live, ForwardLoad(m) PROVE HeaderInv' BY <1>1, <1>6 DEF ForwardLoad
<1>7. ASSUME NEW m \in live, Purge(m) PROVE HeaderInv' BY <1>7, PurgeKeepsHeaders
<1>8. ASSUME UNCHANGED vars PROVE HeaderInv' BY <1>1, <1>8 DEF vars
<1> QED BY <1>2, <1>3, <1>4, <1>5, <1>6, <1>7, <1>8 DEF Next

---------------------------------------------------------------------------
(* What follows *)

\* No two messages in a base share a block of the header file, for every use of the
\* base: posts that end or fail at any step, purges beside mailings and forwardings.
THEOREM HeadersIntactCorrect == Spec => []HeadersIntact
<1>1. HeaderInv => HeadersIntact BY DEF HeaderInv, HeadersIntact, Placed
<1>2. Init => TypeInv /\ HeaderInv BY TypeInit, AllocInit DEF AllocInv
<1> QED BY <1>1, <1>2, TypeStep, HeaderStep, PTL DEF Spec

\* What every step keeps: the part that depends on the counts until a message of an
\* uncounted mailing is purged.
CountedInv == TypeInv /\ HeaderInv /\ QuietInv /\ (~Spoiled => AllocInv)

LEMMA CountedInit == Init => CountedInv
<1>1. Init => QuietInv BY DEF Init, QuietInv, Spoiled
<1> QED BY <1>1, AllocInit DEF CountedInv, AllocInv

LEMMA CountedStep == OneAtATime /\ CountedInv /\ [Next]_vars => CountedInv'
<1>1. TypeInv /\ [Next]_vars /\ ~Spoiled' => ~Spoiled BY SpoiledStep
<1> QED BY <1>1, TypeStep, HeaderStep, QuietStep, AllocStep DEF CountedInv

LEMMA CountedInvariant == ASSUME OneAtATime PROVE Spec => []CountedInv
<1>1. CountedInv /\ [Next]_vars => CountedInv' BY CountedStep
<1> QED BY <1>1, CountedInit, PTL DEF Spec

\* The header file holds the header of every message in the base; the data file holds
\* its text, until a message of a mailing is purged whose references bulkmail() did not
\* add, because smb_open_da() failed or it ended early.  No other failure at any step
\* makes smballoc.c give away blocks that are in use, if purges keep off a mailing under
\* way and no count can wrap.
THEOREM IntactCorrect == ASSUME OneAtATime PROVE Spec => []Intact
<1>1. CountedInv => Intact
  <2> SUFFICES ASSUME CountedInv PROVE Intact OBVIOUS
  <2>1. HeadersIntact BY DEF CountedInv, HeaderInv, HeadersIntact, Placed
  <2>2. AllocInv => DataIntact BY InUse DEF AllocInv, DataInv, TextsStored, Stored, DataIntact
  <2> QED BY <2>1, <2>2 DEF CountedInv, Intact
<1> QED BY <1>1, CountedInvariant, PTL

\* The next post may have what the table shows as free: a block whose reference count
\* is zero belongs to no message in the base, until a message of a mailing is purged
\* whose references were not added.
THEOREM FreeBlocksUnusedCorrect == ASSUME OneAtATime PROVE Spec => []FreeBlocksUnused
<1>1. AllocInv => ZeroIsFree
  <2> SUFFICES ASSUME AllocInv, NEW m \in live, NEW b \in Span(m.data) PROVE sda[b + 1] > 0
    BY DEF ZeroIsFree
  <2>1. m.data \in DataInUse BY InUse
  <2>2. sda[b + 1] >= 1 BY <2>1 DEF AllocInv, CountInv, Enough
  <2>3. sda[b + 1] \in Nat BY <2>1, BlocksInTable
  <2> QED BY <2>2, <2>3
<1>2. CountedInv => FreeBlocksUnused BY <1>1 DEF CountedInv, FreeBlocksUnused
<1> QED BY <1>2, CountedInvariant, PTL

\* Between operations, a block's count is the number of headers that refer to it, for
\* messages without a tail when nothing but the adding of a header fails.
THEOREM CountIsHeadersCorrect == ASSUME OneAtATime PROVE Spec => []CountIsHeaders
<1>1. AllocInv => CountIsHeaders
  <2> SUFFICES ASSUME AllocInv, Simple, InProgress = {}, NEW b \in 0..(Len(sda) - 1)
               PROVE  sda[b + 1] = Cardinality(Users(b))
    BY DEF CountIsHeaders, CountRight, Simple
  <2>1. ~Uses(pend, b) /\ ~Uses(bulk, b) /\ ~Uses(fwd, b) BY DEF InProgress, Uses
  <2>2. Due(b) = Cardinality(Users(b)) BY <2>1, DueType DEF AllocInv, Due, Counted
  <2> QED BY <2>2 DEF AllocInv, ExactInv
<1>2. ~Simple => CountIsHeaders BY DEF Simple, CountIsHeaders
<1>3. CountedInv => CountIsHeaders BY <1>1, <1>2 DEF CountedInv, QuietInv
<1> QED BY <1>3, CountedInvariant, PTL

\* Under the same conditions no block stays taken that nothing uses.
THEOREM NothingLeaks == ASSUME OneAtATime PROVE Spec => [](Simple => NoLeak)
<1>1. AllocInv => (Simple => NoLeak)
  <2> SUFFICES ASSUME AllocInv, Simple, NEW b \in 0..(Len(sda) - 1), sda[b + 1] > 0
               PROVE  Users(b) # {} \/ \E x \in InProgress : b \in Span(x.data)
    BY DEF NoLeak
  <2> SUFFICES ASSUME Users(b) = {}, \A x \in InProgress : b \notin Span(x.data) PROVE FALSE
    OBVIOUS
  <2>1. ~Uses(pend, b) /\ ~Uses(bulk, b) /\ ~Uses(fwd, b) BY DEF InProgress, Uses
  <2>2. Cardinality(Users(b)) = 0 BY FS_EmptySet
  <2>3. Due(b) = 0 BY <2>1, <2>2 DEF Due, Counted
  <2> QED BY <2>3 DEF AllocInv, ExactInv
<1>2. CountedInv => (Simple => NoLeak) BY <1>1 DEF CountedInv, QuietInv
<1> QED BY <1>2, CountedInvariant, PTL

---------------------------------------------------------------------------
(* The base implements the abstract store *)

\* The message a number is of is one, and its text is there.
TextsAre == \A m \in live : Header(m.num) = m /\ TextOf(m) = m.data.text

LEMMA TextsRead == AllocInv => TextsAre
<1> SUFFICES ASSUME AllocInv, NEW m \in live PROVE Header(m.num) = m /\ TextOf(m) = m.data.text
  BY DEF TextsAre
<1>1. Header(m.num) = m BY DEF Header, AllocInv, HeaderInv
<1>2. Stored(m.data) BY InUse DEF AllocInv, DataInv, TextsStored
<1> QED BY <1>1, <1>2 DEF TextOf, Stored

LEMMA TextsReadNext == AllocInv' => TextsAre'
BY TextsRead, PTL

\* A step that leaves the index alone reads the same texts.
LEMMA StoresSame ==
  ASSUME AllocInv, AllocInv', UNCHANGED live
  PROVE  Stores' = Stores
<1>1. ASSUME NEW m \in live PROVE TextOf(Header(m.num))' = TextOf(Header(m.num))
  <2>1. Header(m.num) = m /\ TextOf(m) = m.data.text BY TextsRead DEF TextsAre
  <2>2. TextsAre' BY TextsReadNext
  <2>3. Header(m.num)' = m /\ TextOf(m)' = m.data.text BY <2>2 DEF TextsAre
  <2>4. TextOf(Header(m.num))' = TextOf(m)' BY <2>3 DEF TextOf
  <2> QED BY <2>1, <2>3, <2>4
<1> QED BY <1>1 DEF Stores

\* A header added is a message stored with the text it refers to.
LEMMA HeaderStores ==
  ASSUME AllocInv, AllocInv', NEW d \in Data, NEW storage, NEW num \in Nums, NEW n, NEW p,
         AddHeader(d, storage, num, p, n)
  PROVE  \E t \in Texts : Store!Add(num, t)
<1> DEFINE new == [num |-> num, data |-> d, at |-> p, blocks |-> n]
<1>1. num \notin {m.num : m \in live} /\ live' = live \union {new} BY DEF AddHeader
<1>2. new.num = num /\ new.data = d OBVIOUS
<1> HIDE DEF new
<1>3. \A m \in live : TextOf(Header(m.num)) = m.data.text BY TextsRead DEF TextsAre
<1>4. \A m \in live' : TextOf(Header(m.num))' = m.data.text
  <2>1. TextsAre' BY TextsReadNext
  <2> TAKE m \in live'
  <2>2. Header(m.num)' = m /\ TextOf(m)' = m.data.text BY <2>1 DEF TextsAre
  <2>3. TextOf(Header(m.num))' = TextOf(m)' BY <2>2 DEF TextOf
  <2> QED BY <2>2, <2>3
<1>5. DOMAIN Stores' = DOMAIN Stores \union {num} /\ num \notin DOMAIN Stores
  BY <1>1, <1>2 DEF Stores
<1>6. \A k \in DOMAIN Stores' : Stores'[k] = IF k = num THEN d.text ELSE Stores[k]
  <2> SUFFICES ASSUME NEW m \in live'
               PROVE  TextOf(Header(m.num))' =
                        IF m.num = num THEN d.text ELSE Stores[m.num]
    BY DEF Stores
  <2>1. TextOf(Header(m.num))' = m.data.text BY <1>4
  <2>2. CASE m = new BY <1>2, <2>1, <2>2
  <2>3. CASE m \in live BY <1>1, <1>3, <2>1, <2>3 DEF Stores
  <2> QED BY <1>1, <2>2, <2>3
<1>7. Stores' = [k \in DOMAIN Stores \union {num} |-> IF k = num THEN d.text ELSE Stores[k]]
  BY <1>5, <1>6 DEF Stores
<1>8. d.text \in Texts BY DEF Data
<1>9. Store!Add(num, d.text) BY <1>5, <1>7 DEF Store!Add, Stores
<1> QED BY <1>8, <1>9

\* A message purged is one no longer stored, and no other.
LEMMA PurgeStores ==
  ASSUME AllocInv, AllocInv', NEW m \in live, Purge(m)
  PROVE  m.num \in Nums /\ Store!Purge(m.num)
<1>1. live' = live \ {m} BY DEF Purge
<1>2. \A k \in live : k.num = m.num => k = m BY DEF AllocInv, HeaderInv
<1>3. \A k \in live : TextOf(Header(k.num)) = k.data.text BY TextsRead DEF TextsAre
<1>4. \A k \in live' : TextOf(Header(k.num))' = k.data.text
  <2>1. TextsAre' BY TextsReadNext
  <2> TAKE k \in live'
  <2>2. Header(k.num)' = k /\ TextOf(k)' = k.data.text BY <2>1 DEF TextsAre
  <2>3. TextOf(Header(k.num))' = TextOf(k)' BY <2>2 DEF TextOf
  <2> QED BY <2>2, <2>3
<1>5. DOMAIN Stores' = DOMAIN Stores \ {m.num} /\ m.num \in DOMAIN Stores
  BY <1>1, <1>2 DEF Stores
<1>6. \A j \in DOMAIN Stores' : Stores'[j] = Stores[j]
  <2> SUFFICES ASSUME NEW k \in live' PROVE TextOf(Header(k.num))' = Stores[k.num]
    BY DEF Stores
  <2> QED BY <1>1, <1>3, <1>4 DEF Stores
<1>7. Stores' = [j \in DOMAIN Stores \ {m.num} |-> Stores[j]] BY <1>5, <1>6 DEF Stores
<1>8. Store!Purge(m.num) BY <1>5, <1>7 DEF Store!Purge, Stores
<1> QED BY <1>8 DEF AllocInv, TypeInv, TypeOK

LEMMA RefinementStep ==
  ASSUME AllocInv, AllocInv', [Next]_vars
  PROVE  Store!Next \/ UNCHANGED Stores
<1>1. ASSUME NEW num \in Nums, NEW n \in HdrLens, NEW p \in 0..Len(sha),
             PostHeader(num, p, n) \/ BulkHeader(num, p, n) \/ ForwardHeader(num, p, n)
      PROVE  Store!Next
  <2>1. PICK d \in Data : \E storage : AddHeader(d, storage, num, p, n)
    BY <1>1 DEF PostHeader, BulkHeader, ForwardHeader, AllocInv, TypeInv, TypeOK
  <2>2. \E t \in Texts : Store!Add(num, t) BY <2>1, HeaderStores
  <2> QED BY <2>2 DEF Store!Next
<1>2. ASSUME NEW m \in live, Purge(m) PROVE Store!Next
  BY <1>2, PurgeStores DEF Store!Next
<1>3. ASSUME UNCHANGED live PROVE UNCHANGED Stores BY <1>3, StoresSame
<1>4. ASSUME NEW d \in NewData, NEW s \in Storages, PostData(d, s) \/ BulkData(d, s)
      PROVE  UNCHANGED live
  BY <1>4 DEF PostData, BulkData
<1>5. ASSUME \/ PostHeaderFails \/ PostTextFails \/ PostCrash \/ BulkNoUser \/ BulkEnd
             \/ BulkOpenFails \/ BulkCrash
             \/ ForwardInc \/ ForwardFails \/ ForwardOpenFails \/ ForwardLost
      PROVE  UNCHANGED live
  BY <1>5 DEF PostHeaderFails, PostTextFails, PostCrash, BulkNoUser, BulkEnd, BulkOpenFails,
     BulkCrash, BulkUncounted, ForwardInc, ForwardFails, ForwardOpenFails, ForwardLost
<1>6. ASSUME NEW m \in live, ForwardLoad(m) PROVE UNCHANGED live BY <1>6 DEF ForwardLoad
<1>7. ASSUME UNCHANGED vars PROVE UNCHANGED live BY <1>7 DEF vars
<1> QED BY <1>1, <1>2, <1>3, <1>4, <1>5, <1>6, <1>7 DEF Next

\* The base is a store of messages: each reads back the text it was added with, from
\* the moment its header is in the index until it is purged, and adding, forwarding,
\* mailing or purging one, or failing to, changes no other; until a message of a mailing
\* is purged whose references bulkmail() did not add.
THEOREM ImplementsStore == ASSUME OneAtATime PROVE Spec => StoresText
<1>1. Init => Store!Init BY DEF Init, Store!Init, Stores
<1>2. CountedInv /\ CountedInv' /\ [Next]_vars => [Store!Next \/ Spoiled']_Stores
  <2> SUFFICES ASSUME CountedInv, CountedInv', [Next]_vars, ~Spoiled'
               PROVE  Store!Next \/ UNCHANGED Stores
    OBVIOUS
  <2>1. ~Spoiled BY SpoiledStep DEF CountedInv
  <2>2. AllocInv /\ AllocInv' BY <2>1 DEF CountedInv
  <2> QED BY <2>2, RefinementStep
<1> QED BY <1>1, <1>2, CountedInvariant, PTL DEF Spec, StoresText
=============================================================================

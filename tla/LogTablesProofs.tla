-------------------------- MODULE LogTablesProofs --------------------------
(***************************************************************************)
(* For tables of any number of rows and whatever entries are marked: every *)
(* lookup of a live contract finds its entry.                              *)
(***************************************************************************)
EXTENDS LogTables, SequenceTheorems, TLAPS

(***************************************************************************)
(* The byte at offset k of a table, and the table, as they should be.      *)
(***************************************************************************)
EncodedByte(t, k) == Byte(t.name, (k \div t.width) \div 10, (k \div t.width) % 10, k % t.width)
Encoded(t) == [k \in 1..t.size |-> EncodedByte(t, k - 1)]

(***************************************************************************)
(* What is joined before table i is begun, and the data contract.          *)
(***************************************************************************)
Joined(i) ==
  CASE i = 1 -> <<>>
    [] i = 2 -> Encoded(LogTableDec)
    [] i = 3 -> Encoded(LogTableDec) \o Encoded(LogTableDecSmall)
    [] i = 4 -> Encoded(LogTableDec) \o Encoded(LogTableDecSmall) \o Encoded(LogTableDecSmallAlt)
    [] i = 5 -> Encoded(LogTableDec) \o Encoded(LogTableDecSmall) \o Encoded(LogTableDecSmallAlt)
                  \o Encoded(AntiLogTableDec)

DataContract == <<Zero>> \o (Joined(5) \o Encoded(AntiLogTableDecSmall))
                  \o [k \in 1..32 |-> Disambiguator]

(***************************************************************************)
(* The tables and their bytes.                                             *)
(***************************************************************************)
TableNames == {"log", "logSmall", "logSmallAlt", "antilog", "antilogSmall"}
AllTables == {LogTableDec, LogTableDecSmall, LogTableDecSmallAlt, AntiLogTableDec,
              AntiLogTableDecSmall}
Bytes == (TableNames \cup {"zero", "disambiguator"}) \X Int \X Int \X Int

-----------------------------------------------------------------------------
(***************************************************************************)
(* The shape of the tables.                                                *)
(***************************************************************************)

LEMMA Sizes ==
  /\ LogRows \in Nat \ {0} /\ AltRows \in 1..LogRows /\ AntilogRows \in Nat \ {0}
  /\ LogTableSizeBase = 10 * LogRows /\ LogTableSizeBytes = 20 * LogRows
  /\ AltSmallLogTableSizeBytes = 10 * AltRows
  /\ AntilogTableSizeBytes = 20 * AntilogRows /\ AntilogTableSmallSizeBytes = 10 * AntilogRows
  /\ LogLastIndex = 100 * LogRows - 1 /\ AntilogLastIndex = 100 * AntilogRows - 1
BY TablesAssumption DEF LogTableSizeBase, LogTableSizeBytes, LogCardinality, AltSmallLogTableSizeBytes,
   AntilogTableSizeBytes, AntilogTableSmallSizeBytes, LogLastIndex, AntilogLastIndex, AntilogCardinality

(***************************************************************************)
(* toBytes allocates just the bytes that the entries of a table take.      *)
(***************************************************************************)
LEMMA TableShape ==
  ASSUME NEW t \in AllTables
  PROVE  /\ t.width = 1 \/ t.width = 2
         /\ t.rows \in Nat \ {0} /\ t.size \in Nat /\ t.size = t.width * (10 * t.rows)
         /\ t.name \in TableNames
<1>1. CASE t = LogTableDec
  <2>1. t.name = "log" /\ t.width = 2 /\ t.rows = LogRows /\ t.size = LogTableSizeBytes
    BY <1>1 DEF LogTableDec
  <2>2. t.name \in TableNames
    BY <2>1 DEF TableNames
  <2>3. LogRows \in Nat \ {0} /\ LogTableSizeBytes \in Nat /\ LogTableSizeBytes = 2 * (10 * LogRows)
    BY Sizes
  <2> QED BY <2>1, <2>2, <2>3
<1>2. CASE t = LogTableDecSmall
  <2>1. t.name = "logSmall" /\ t.width = 1 /\ t.rows = LogRows /\ t.size = LogTableSizeBase
    BY <1>2 DEF LogTableDecSmall
  <2>2. t.name \in TableNames
    BY <2>1 DEF TableNames
  <2>3. LogRows \in Nat \ {0} /\ LogTableSizeBase \in Nat /\ LogTableSizeBase = 1 * (10 * LogRows)
    BY Sizes
  <2> QED BY <2>1, <2>2, <2>3
<1>3. CASE t = LogTableDecSmallAlt
  <2>1. t.name = "logSmallAlt" /\ t.width = 1 /\ t.rows = AltRows /\ t.size = AltSmallLogTableSizeBytes
    BY <1>3 DEF LogTableDecSmallAlt
  <2>2. t.name \in TableNames
    BY <2>1 DEF TableNames
  <2>3. AltRows \in Nat \ {0} /\ AltSmallLogTableSizeBytes \in Nat /\ AltSmallLogTableSizeBytes = 1 * (10 * AltRows)
    BY Sizes
  <2> QED BY <2>1, <2>2, <2>3
<1>4. CASE t = AntiLogTableDec
  <2>1. t.name = "antilog" /\ t.width = 2 /\ t.rows = AntilogRows /\ t.size = AntilogTableSizeBytes
    BY <1>4 DEF AntiLogTableDec
  <2>2. t.name \in TableNames
    BY <2>1 DEF TableNames
  <2>3. AntilogRows \in Nat \ {0} /\ AntilogTableSizeBytes \in Nat /\ AntilogTableSizeBytes = 2 * (10 * AntilogRows)
    BY Sizes
  <2> QED BY <2>1, <2>2, <2>3
<1>5. CASE t = AntiLogTableDecSmall
  <2>1. t.name = "antilogSmall" /\ t.width = 1 /\ t.rows = AntilogRows /\ t.size = AntilogTableSmallSizeBytes
    BY <1>5 DEF AntiLogTableDecSmall
  <2>2. t.name \in TableNames
    BY <2>1 DEF TableNames
  <2>3. AntilogRows \in Nat \ {0} /\ AntilogTableSmallSizeBytes \in Nat /\ AntilogTableSmallSizeBytes = 1 * (10 * AntilogRows)
    BY Sizes
  <2> QED BY <2>1, <2>2, <2>3
<1> QED BY <1>1, <1>2, <1>3, <1>4, <1>5 DEF AllTables

(***************************************************************************)
(* There are five of them.                                                 *)
(***************************************************************************)
LEMMA FiveTables ==
  /\ Len(CombinedTables) = 5
  /\ \A i \in 1..5 : CombinedTables[i] \in AllTables
<1>1. /\ CombinedTables[1] \in AllTables /\ CombinedTables[2] \in AllTables
      /\ CombinedTables[3] \in AllTables /\ CombinedTables[4] \in AllTables
      /\ CombinedTables[5] \in AllTables
  BY DEF CombinedTables, AllTables
<1>2. \A i \in 1..5 : i = 1 \/ i = 2 \/ i = 3 \/ i = 4 \/ i = 5
  OBVIOUS
<1> QED BY <1>1, <1>2 DEF CombinedTables

(***************************************************************************)
(* An encoded table is a sequence of bytes as long as the table.           *)
(***************************************************************************)
LEMMA EncodedTable ==
  ASSUME NEW t \in AllTables
  PROVE  /\ Encoded(t) \in Seq(Bytes) /\ Len(Encoded(t)) = t.size /\ t.size \in Nat
         /\ \A k \in 0..(t.size - 1) : Encoded(t)[k + 1] = EncodedByte(t, k)
<1>1. t.size \in Nat /\ t.name \in TableNames /\ (t.width = 1 \/ t.width = 2)
  BY TableShape
<1>2. \A k \in Int : EncodedByte(t, k) \in Bytes
  BY <1>1 DEF EncodedByte, Byte, Bytes
<1>3. Encoded(t) \in Seq(Bytes)
  BY <1>1, <1>2 DEF Encoded
<1>4. Len(Encoded(t)) = t.size
  BY <1>1, <1>3 DEF Encoded
<1>5. ASSUME NEW k \in 0..(t.size - 1)
      PROVE  Encoded(t)[k + 1] = EncodedByte(t, k)
  <2>1. k + 1 \in 1..t.size /\ k + 1 - 1 = k
    BY <1>1
  <2> QED BY <2>1 DEF Encoded
<1> QED BY <1>1, <1>3, <1>4, <1>5

-----------------------------------------------------------------------------
(***************************************************************************)
(* Encoding.                                                               *)
(***************************************************************************)

(***************************************************************************)
(* A table of which the bytes from e on are written.                       *)
(***************************************************************************)
BytesWritten(t, e) == [k \in 0..(t.size - 1) |-> IF k >= e THEN EncodedByte(t, k) ELSE Zero]

(***************************************************************************)
(* A round of the loop writes the bytes of its entry, and the zeros that   *)
(* come with it fall on nothing that is written yet.                       *)
(***************************************************************************)
LEMMA EntryIsStored ==
  ASSUME NEW t \in AllTables,
         NEW r \in Nat, NEW c \in 0..9, end = t.width * (r * 10 + c + 1),
         bytes = BytesWritten(t, end)
  PROVE  Stored(t, LAMBDA k : Byte(t.name, r, c, k)) = BytesWritten(t, end - t.width)
<1> DEFINE new == Stored(t, LAMBDA k : Byte(t.name, r, c, k))
<1>1. (t.width = 1 \/ t.width = 2) /\ t.size \in Nat /\ end \in Int
  BY TableShape
<1>2. DOMAIN bytes = 0..(t.size - 1)
  BY DEF BytesWritten
<1>3. new = [k \in 0..(t.size - 1) |->
               IF k \in (end - t.width)..(end - 1) THEN Byte(t.name, r, c, k - (end - t.width))
               ELSE IF k \in (end - 32)..(end - 1) THEN Zero ELSE bytes[k]]
  BY <1>2 DEF Stored
<1>4. ASSUME NEW k \in 0..(t.size - 1)
      PROVE  (IF k \in (end - t.width)..(end - 1) THEN Byte(t.name, r, c, k - (end - t.width))
              ELSE IF k \in (end - 32)..(end - 1) THEN Zero ELSE bytes[k])
             = (IF k >= end - t.width THEN EncodedByte(t, k) ELSE Zero)
  <2>1. k \in Int /\ bytes[k] = (IF k >= end THEN EncodedByte(t, k) ELSE Zero)
    BY <1>1 DEF BytesWritten
  <2>2. CASE k \in (end - t.width)..(end - 1)
    <3>1. /\ (k \div t.width) \div 10 = r /\ (k \div t.width) % 10 = c
          /\ k % t.width = k - (end - t.width)
      <4>1. k \div t.width = r * 10 + c /\ k % t.width = k - (end - t.width)
        <5>1. CASE t.width = 1
          BY <2>1, <2>2, <5>1
        <5>2. CASE t.width = 2
          <6>1. end = 2 * (r * 10 + c + 1) /\ (k = end - 2 \/ k = end - 1)
            BY <1>1, <2>1, <2>2, <5>2
          <6>2. k \div 2 = r * 10 + c /\ k % 2 = k - (end - 2)
            BY <6>1
          <6> QED BY <5>2, <6>2
        <5> QED BY <1>1, <5>1, <5>2
      <4>2. (r * 10 + c) \div 10 = r /\ (r * 10 + c) % 10 = c
        OBVIOUS
      <4> QED BY <4>1, <4>2
    <3>2. k >= end - t.width
      BY <1>1, <2>1, <2>2
    <3> QED BY <2>2, <3>1, <3>2 DEF EncodedByte
  <2>3. CASE ~(k \in (end - t.width)..(end - 1)) /\ k \in (end - 32)..(end - 1)
    <3>1. ~(k >= end - t.width)
      BY <1>1, <2>1, <2>3
    <3> QED BY <2>3, <3>1
  <2>4. CASE ~(k \in (end - t.width)..(end - 1)) /\ ~(k \in (end - 32)..(end - 1))
    <3>1. (k >= end) <=> (k >= end - t.width)
      BY <1>1, <2>1, <2>4
    <3> QED BY <2>1, <2>4, <3>1
  <2> QED BY <2>2, <2>3, <2>4
<1> QED BY <1>3, <1>4, Zenon DEF BytesWritten

(***************************************************************************)
(* What is true while the tables are built and when they are there.        *)
(***************************************************************************)
Building ==
  /\ table \in 1..5
  /\ col \in 0..9 /\ row \in Int /\ row >= -1 /\ (row = -1 => col = 9)
  /\ end = Current.width * (row * 10 + col + 1)
  /\ bytes = BytesWritten(Current, end)
  /\ code = Joined(table)

TablesInv ==
  /\ Building
  /\ tables # <<>> => tables = DataContract
  /\ contract = "live" => tables # <<>>
  /\ LookupsFindTheirEntries

(***************************************************************************)
(* The loop starts behind the last entry.                                  *)
(***************************************************************************)
LEMMA StartsAtTheEnd ==
  ASSUME NEW t \in AllTables
  PROVE  /\ t.rows - 1 \in Int /\ t.rows - 1 >= -1 /\ t.rows - 1 # -1
         /\ t.size = t.width * ((t.rows - 1) * 10 + 9 + 1)
         /\ Blank(t) = BytesWritten(t, t.size)
<1>1. (t.width = 1 \/ t.width = 2) /\ t.rows \in Nat \ {0} /\ t.size \in Nat
      /\ t.size = t.width * (10 * t.rows)
  BY TableShape
<1>2. (t.rows - 1) * 10 + 9 + 1 = 10 * t.rows
  BY <1>1
<1>3. \A k \in 0..(t.size - 1) : ~(k >= t.size)
  BY <1>1
<1> QED BY <1>1, <1>2, <1>3 DEF Blank, BytesWritten

(***************************************************************************)
(* The loop ends with the table encoded.                                   *)
(***************************************************************************)
LEMMA TableIsEncoded ==
  ASSUME Building, end <= 0
  PROVE  TableBytes = Encoded(Current)
<1>1. table \in 1..5 /\ (Current.width = 1 \/ Current.width = 2) /\ Current.size \in Nat
  BY FiveTables, TableShape DEF Building, Current
<1>2. end \in Int
  BY <1>1 DEF Building
<1>3. ASSUME NEW k \in 1..Current.size
      PROVE  bytes[k - 1] = EncodedByte(Current, k - 1)
  <2>1. k - 1 \in 0..(Current.size - 1) /\ k - 1 >= end
    BY <1>1, <1>2
  <2> QED BY <2>1 DEF Building, BytesWritten
<1> QED BY <1>3, Zenon DEF TableBytes, Encoded
-----------------------------------------------------------------------------
(***************************************************************************)
(* The data contract.                                                      *)
(***************************************************************************)

(***************************************************************************)
(* Where a table starts in it.                                             *)
(***************************************************************************)
StartOf(i) ==
  CASE i = 1 -> 1
    [] i = 2 -> 1 + LogTableSizeBytes
    [] i = 3 -> 1 + LogTableSizeBytes + LogTableSizeBase
    [] i = 4 -> 1 + LogTableSizeBytes + LogTableSizeBase + AltSmallLogTableSizeBytes
    [] i = 5 -> 1 + LogTableSizeBytes + LogTableSizeBase + AltSmallLogTableSizeBytes
                  + AntilogTableSizeBytes

(***************************************************************************)
(* d holds e behind its first p bytes.                                     *)
(***************************************************************************)
Holds(d, p, e) == \A k \in 1..Len(e) : p + k \in 1..Len(d) /\ d[p + k] = e[k]

(***************************************************************************)
(* Joined tables hold both, and what these hold.                           *)
(***************************************************************************)
LEMMA JoinHolds ==
  ASSUME NEW a \in Seq(Bytes), NEW b \in Seq(Bytes), NEW s, s = a \o b
  PROVE  /\ s \in Seq(Bytes) /\ Len(s) = Len(a) + Len(b)
         /\ Len(a) \in Nat /\ Len(b) \in Nat
         /\ Holds(s, 0, a) /\ Holds(s, Len(a), b)
<1>1. /\ s \in Seq(Bytes) /\ Len(s) = Len(a) + Len(b)
      /\ \A k \in 1..Len(a) + Len(b) :
           s[k] = IF k <= Len(a) THEN a[k] ELSE b[k - Len(a)]
  BY ConcatProperties
<1>2. Len(a) \in Nat /\ Len(b) \in Nat
  OBVIOUS
<1>3. ASSUME NEW k \in 1..Len(a) PROVE 0 + k \in 1..Len(s) /\ s[0 + k] = a[k]
  BY <1>1, <1>2
<1>4. ASSUME NEW k \in 1..Len(b) PROVE Len(a) + k \in 1..Len(s) /\ s[Len(a) + k] = b[k]
  <2>1. /\ Len(a) + k \in 1..Len(a) + Len(b) /\ ~(Len(a) + k <= Len(a))
        /\ Len(a) + k - Len(a) = k
    BY <1>2
  <2> QED BY <1>1, <2>1
<1> QED BY <1>1, <1>2, <1>3, <1>4 DEF Holds

(***************************************************************************)
(* What is held by what is held is held, further behind.                   *)
(***************************************************************************)
LEMMA HoldsWithin ==
  ASSUME NEW d, NEW b, NEW e, NEW p \in Nat, NEW q \in Nat, Holds(b, p, e), Holds(d, q, b)
  PROVE  Holds(d, q + p, e)
<1>1. ASSUME NEW k \in 1..Len(e) PROVE q + p + k \in 1..Len(d) /\ d[q + p + k] = e[k]
  <2>1. p + k \in 1..Len(b) /\ b[p + k] = e[k]
    BY DEF Holds
  <2>2. q + (p + k) \in 1..Len(d) /\ d[q + (p + k)] = b[p + k]
    BY <2>1 DEF Holds
  <2>3. q + (p + k) = q + p + k
    BY <2>2
  <2> QED BY <2>1, <2>2, <2>3
<1> QED BY <1>1 DEF Holds

(***************************************************************************)
(* The same of what stands first.                                          *)
(***************************************************************************)
LEMMA HoldsFirst ==
  ASSUME NEW d, NEW b, NEW e, NEW q \in Nat, Holds(b, 0, e), Holds(d, q, b)
  PROVE  Holds(d, q, e)
<1>1. q + 0 = q /\ 0 \in Nat
  OBVIOUS
<1>2. Holds(d, q + 0, e)
  BY <1>1, HoldsWithin, Zenon
<1> QED BY <1>1, <1>2

(***************************************************************************)
(* Five tables behind the byte z.                                          *)
(***************************************************************************)
LEMMA FiveJoined ==
  ASSUME NEW e1 \in Seq(Bytes), NEW e2 \in Seq(Bytes), NEW e3 \in Seq(Bytes),
         NEW e4 \in Seq(Bytes), NEW e5 \in Seq(Bytes), NEW u \in Seq(Bytes),
         NEW z \in Seq(Bytes), Len(z) = 1,
         NEW s2, s2 = e1 \o e2, NEW s3, s3 = s2 \o e3, NEW s4, s4 = s3 \o e4,
         NEW s5, s5 = s4 \o e5, NEW y, y = z \o s5, NEW d, d = y \o u
  PROVE  /\ Holds(d, 1, e1) /\ Holds(d, 1 + Len(e1), e2)
         /\ Holds(d, 1 + (Len(e1) + Len(e2)), e3)
         /\ Holds(d, 1 + (Len(e1) + Len(e2) + Len(e3)), e4)
         /\ Holds(d, 1 + (Len(e1) + Len(e2) + Len(e3) + Len(e4)), e5)
<1>1. /\ s2 \in Seq(Bytes) /\ Len(s2) = Len(e1) + Len(e2) /\ Len(e1) \in Nat
      /\ Holds(s2, 0, e1) /\ Holds(s2, Len(e1), e2)
  BY JoinHolds, Zenon
<1>2. /\ s3 \in Seq(Bytes) /\ Len(s3) = Len(s2) + Len(e3) /\ Len(s2) \in Nat
      /\ Holds(s3, 0, s2) /\ Holds(s3, Len(s2), e3)
  <2>1. s2 \in Seq(Bytes) /\ e3 \in Seq(Bytes)
    BY <1>1
  <2> QED BY <2>1, JoinHolds, Zenon
<1>3. /\ s4 \in Seq(Bytes) /\ Len(s4) = Len(s3) + Len(e4) /\ Len(s3) \in Nat
      /\ Holds(s4, 0, s3) /\ Holds(s4, Len(s3), e4)
  <2>1. s3 \in Seq(Bytes) /\ e4 \in Seq(Bytes)
    BY <1>2
  <2> QED BY <2>1, JoinHolds, Zenon
<1>4. /\ s5 \in Seq(Bytes) /\ Len(s4) \in Nat
      /\ Holds(s5, 0, s4) /\ Holds(s5, Len(s4), e5)
  BY <1>3, JoinHolds, Zenon
<1>5. y \in Seq(Bytes) /\ Holds(y, 1, s5)
  <2>1. y \in Seq(Bytes) /\ Holds(y, Len(z), s5)
    BY <1>4, JoinHolds, Zenon
  <2> QED BY <2>1
<1>6. Holds(d, 0, y)
  BY <1>5, JoinHolds, Zenon
<1>7. 1 \in Nat /\ 0 \in Nat
  OBVIOUS
<1>8. Holds(d, 1, s5)
  <2>1. Holds(d, 0 + 1, s5)
    BY <1>5, <1>6, <1>7, HoldsWithin, Zenon
  <2>2. 0 + 1 = 1
    OBVIOUS
  <2> QED BY <2>1, <2>2
<1>9. Holds(d, 1, s4) /\ Holds(d, 1 + Len(s4), e5)
  BY <1>4, <1>7, <1>8, HoldsFirst, HoldsWithin, Zenon
<1>10. Holds(d, 1, s3) /\ Holds(d, 1 + Len(s3), e4)
  BY <1>3, <1>7, <1>9, HoldsFirst, HoldsWithin, Zenon
<1>11. Holds(d, 1, s2) /\ Holds(d, 1 + Len(s2), e3)
  BY <1>2, <1>7, <1>10, HoldsFirst, HoldsWithin, Zenon
<1>12. Holds(d, 1, e1) /\ Holds(d, 1 + Len(e1), e2)
  BY <1>1, <1>7, <1>11, HoldsFirst, HoldsWithin, Zenon
<1> QED BY <1>1, <1>2, <1>3, <1>9, <1>10, <1>11, <1>12, Zenon

(***************************************************************************)
(* The data contract has table t at offset p.                              *)
(***************************************************************************)
InPlace(t, p) == t \in AllTables /\ p \in Nat /\ Holds(DataContract, p, Encoded(t))

(***************************************************************************)
(* combinedTables puts each table where the readers look for it.           *)
(***************************************************************************)
LEMMA DataContractHoldsTables ==
  /\ InPlace(LogTableDec, StartOf(1)) /\ InPlace(LogTableDecSmall, StartOf(2))
  /\ InPlace(LogTableDecSmallAlt, StartOf(3)) /\ InPlace(AntiLogTableDec, StartOf(4))
  /\ InPlace(AntiLogTableDecSmall, StartOf(5))
<1>1. PICK e1, e2, e3, e4, e5, z, u :
        /\ e1 = Encoded(LogTableDec) /\ e2 = Encoded(LogTableDecSmall)
        /\ e3 = Encoded(LogTableDecSmallAlt) /\ e4 = Encoded(AntiLogTableDec)
        /\ e5 = Encoded(AntiLogTableDecSmall)
        /\ z = <<Zero>> /\ u = [n \in 1..32 |-> Disambiguator]
  OBVIOUS
<1>2. /\ e1 \in Seq(Bytes) /\ Len(e1) = LogTableSizeBytes
      /\ e2 \in Seq(Bytes) /\ Len(e2) = LogTableSizeBase
      /\ e3 \in Seq(Bytes) /\ Len(e3) = AltSmallLogTableSizeBytes
      /\ e4 \in Seq(Bytes) /\ Len(e4) = AntilogTableSizeBytes
      /\ e5 \in Seq(Bytes)
  <2>1. /\ LogTableDec \in AllTables /\ LogTableDecSmall \in AllTables
        /\ LogTableDecSmallAlt \in AllTables /\ AntiLogTableDec \in AllTables
        /\ AntiLogTableDecSmall \in AllTables
    BY DEF AllTables
  <2>2. /\ LogTableDec.size = LogTableSizeBytes /\ LogTableDecSmall.size = LogTableSizeBase
        /\ LogTableDecSmallAlt.size = AltSmallLogTableSizeBytes
        /\ AntiLogTableDec.size = AntilogTableSizeBytes
    BY DEF LogTableDec, LogTableDecSmall, LogTableDecSmallAlt, AntiLogTableDec
  <2>3. \A t \in AllTables : Encoded(t) \in Seq(Bytes) /\ Len(Encoded(t)) = t.size
    BY EncodedTable
  <2> QED BY <1>1, <2>1, <2>2, <2>3, Zenon
<1>3. z \in Seq(Bytes) /\ Len(z) = 1 /\ u \in Seq(Bytes)
  <2>1. Zero \in Bytes /\ Disambiguator \in Bytes
    BY DEF Zero, Disambiguator, Bytes
  <2> QED BY <1>1, <2>1
<1>4. PICK s2, s3, s4, s5, y :
        /\ s2 = e1 \o e2 /\ s3 = s2 \o e3 /\ s4 = s3 \o e4 /\ s5 = s4 \o e5 /\ y = z \o s5
  OBVIOUS
<1>5. DataContract = y \o u
  <2>1. Joined(5) = ((e1 \o e2) \o e3) \o e4
    <3>1. 5 # 1 /\ 5 # 2 /\ 5 # 3 /\ 5 # 4
      OBVIOUS
    <3> QED BY <1>1, <3>1, Zenon DEF Joined
  <2> QED BY <1>1, <1>4, <2>1, Zenon DEF DataContract
<1>6. /\ Holds(DataContract, 1, e1) /\ Holds(DataContract, 1 + Len(e1), e2)
      /\ Holds(DataContract, 1 + (Len(e1) + Len(e2)), e3)
      /\ Holds(DataContract, 1 + (Len(e1) + Len(e2) + Len(e3)), e4)
      /\ Holds(DataContract, 1 + (Len(e1) + Len(e2) + Len(e3) + Len(e4)), e5)
  BY <1>2, <1>3, <1>4, <1>5, FiveJoined, Zenon
<1>7. /\ StartOf(1) = 1 /\ StartOf(2) = 1 + LogTableSizeBytes
      /\ StartOf(3) = 1 + LogTableSizeBytes + LogTableSizeBase
      /\ StartOf(4) = 1 + LogTableSizeBytes + LogTableSizeBase + AltSmallLogTableSizeBytes
      /\ StartOf(5) = 1 + LogTableSizeBytes + LogTableSizeBase + AltSmallLogTableSizeBytes
                        + AntilogTableSizeBytes
  BY DEF StartOf
<1>8. /\ StartOf(2) = 1 + Len(e1) /\ StartOf(3) = 1 + (Len(e1) + Len(e2))
      /\ StartOf(4) = 1 + (Len(e1) + Len(e2) + Len(e3))
      /\ StartOf(5) = 1 + (Len(e1) + Len(e2) + Len(e3) + Len(e4))
  BY <1>2, <1>7, Sizes
<1>9. /\ Holds(DataContract, StartOf(1), e1) /\ Holds(DataContract, StartOf(2), e2)
      /\ Holds(DataContract, StartOf(3), e3) /\ Holds(DataContract, StartOf(4), e4)
      /\ Holds(DataContract, StartOf(5), e5)
  BY <1>6, <1>7, <1>8, Zenon
<1>10. /\ StartOf(1) \in Nat /\ StartOf(2) \in Nat /\ StartOf(3) \in Nat
       /\ StartOf(4) \in Nat /\ StartOf(5) \in Nat
  BY <1>7, Sizes
<1>11. /\ LogTableDec \in AllTables /\ LogTableDecSmall \in AllTables
       /\ LogTableDecSmallAlt \in AllTables /\ AntiLogTableDec \in AllTables
       /\ AntiLogTableDecSmall \in AllTables
  BY DEF AllTables
<1> QED BY <1>1, <1>9, <1>10, <1>11, Zenon DEF InPlace

-----------------------------------------------------------------------------
(***************************************************************************)
(* Reading.                                                                *)
(***************************************************************************)

(***************************************************************************)
(* What is copied from behind p is a part of table t.                      *)
(***************************************************************************)
Copies(t, p) ==
  \A q \in Nat, n \in Nat : q + n <= t.size =>
    ExtCodeCopy(p + q, n) = [k \in 1..n |-> EncodedByte(t, q + k - 1)]

(***************************************************************************)
(* So it is where the table is in place.                                   *)
(***************************************************************************)
LEMMA CopiedBytes ==
  ASSUME tables = DataContract, NEW t, NEW p, InPlace(t, p)
  PROVE  Copies(t, p)
<1> SUFFICES ASSUME NEW q \in Nat, NEW n \in Nat, q + n <= t.size
             PROVE  ExtCodeCopy(p + q, n) = [k \in 1..n |-> EncodedByte(t, q + k - 1)]
  BY DEF Copies
<1>0. t \in AllTables /\ p \in Nat /\ Holds(DataContract, p, Encoded(t))
  BY DEF InPlace
<1>1. ASSUME NEW k \in 1..n
      PROVE  (IF p + q + k <= Len(tables) THEN tables[p + q + k] ELSE Zero) = EncodedByte(t, q + k - 1)
  <2>1. t.size \in Nat /\ Len(Encoded(t)) = t.size
        /\ \A m \in 0..(t.size - 1) : Encoded(t)[m + 1] = EncodedByte(t, m)
    BY <1>0, EncodedTable
  <2>2. q + k \in 1..t.size /\ q + k - 1 \in 0..(t.size - 1) /\ q + k - 1 + 1 = q + k
    BY <2>1
  <2>3. p + (q + k) \in 1..Len(tables) /\ tables[p + (q + k)] = EncodedByte(t, q + k - 1)
    BY <1>0, <2>1, <2>2 DEF Holds
  <2>4. p + (q + k) = p + q + k /\ p + q + k <= Len(tables)
    BY <1>0, <2>3
  <2> QED BY <2>3, <2>4
<1> QED BY <1>1, Zenon DEF ExtCodeCopy

(***************************************************************************)
(* Main tables have two bytes to the entry, small ones one.                *)
(***************************************************************************)
TwoBytes(t) == t.width = 2
OneByte(t) == t.width = 1

(***************************************************************************)
(* The two bytes of a main entry, and the byte of a small one.             *)
(***************************************************************************)
LEMMA MainEntryFound ==
  ASSUME tables = DataContract, NEW t, NEW p, InPlace(t, p), TwoBytes(t),
         NEW idx \in Nat, idx \div 100 < t.rows
  PROVE  MainEntry(p, idx) = <<Byte(t.name, idx \div 100, (idx \div 10) % 10, 0),
                               Byte(t.name, idx \div 100, (idx \div 10) % 10, 1)>>
<1>1. t.size = 2 * (10 * t.rows) /\ t.rows \in Nat /\ t.width = 2
  BY TableShape DEF InPlace, TwoBytes
<1>2. PICK h \in Nat : h = idx \div 10 /\ h \div 10 = idx \div 100
  OBVIOUS
<1>3. h * 2 \in Nat /\ 2 \in Nat /\ h * 2 + 2 <= t.size
  BY <1>1, <1>2
<1>4. ExtCodeCopy(p + h * 2, 2) = [k \in 1..2 |-> EncodedByte(t, h * 2 + k - 1)]
  <2>1. PICK q \in Nat, n \in Nat : q = h * 2 /\ n = 2
    BY <1>3
  <2>2. q + n <= t.size
    BY <1>3, <2>1
  <2>3. ExtCodeCopy(p + q, n) = [k \in 1..n |-> EncodedByte(t, q + k - 1)]
    <3>1. Copies(t, p)
      BY CopiedBytes, Zenon
    <3> QED BY <2>2, <3>1, Zenon DEF Copies
  <2> QED BY <2>1, <2>3
<1>5. EncodedByte(t, h * 2 + 1 - 1) = Byte(t.name, idx \div 100, h % 10, 0)
  <2>1. (h * 2 + 1 - 1) \div 2 = h /\ (h * 2 + 1 - 1) % 2 = 0
    OBVIOUS
  <2> QED BY <1>1, <1>2, <2>1 DEF EncodedByte
<1>6. EncodedByte(t, h * 2 + 2 - 1) = Byte(t.name, idx \div 100, h % 10, 1)
  <2>1. (h * 2 + 2 - 1) \div 2 = h /\ (h * 2 + 2 - 1) % 2 = 1
    OBVIOUS
  <2> QED BY <1>1, <1>2, <2>1 DEF EncodedByte
<1>7. MainEntry(p, idx) = ExtCodeCopy(p + h * 2, 2)
  BY <1>2 DEF MainEntry
<1>8. PICK b1, b2 : b1 = EncodedByte(t, h * 2 + 1 - 1) /\ b2 = EncodedByte(t, h * 2 + 2 - 1)
  OBVIOUS
<1>9. [k \in 1..2 |-> EncodedByte(t, h * 2 + k - 1)] = <<b1, b2>>
  <2>1. ASSUME NEW k \in 1..2
        PROVE  EncodedByte(t, h * 2 + k - 1) = <<b1, b2>>[k]
    BY <1>8
  <2> QED BY <2>1
<1> QED BY <1>2, <1>4, <1>5, <1>6, <1>7, <1>8, <1>9

(***************************************************************************)
(* The byte of a small entry.                                              *)
(***************************************************************************)
LEMMA SmallEntryFound ==
  ASSUME tables = DataContract, NEW t, NEW p, InPlace(t, p), OneByte(t),
         NEW idx \in Nat, idx \div 100 < t.rows
  PROVE  SmallEntry(p, idx) = <<Byte(t.name, idx \div 100, idx % 10, 0)>>
<1>1. t.size = 10 * t.rows /\ t.rows \in Nat /\ t.width = 1
  BY TableShape DEF InPlace, OneByte
<1>2. PICK h \in Nat, l \in 0..9 : h = idx \div 100 /\ l = idx % 10
  OBVIOUS
<1>3. h * 10 + l \in Nat /\ 1 \in Nat /\ h * 10 + l + 1 <= t.size
  BY <1>1, <1>2
<1>4. ExtCodeCopy(p + (h * 10 + l), 1) = [k \in 1..1 |-> EncodedByte(t, h * 10 + l + k - 1)]
  <2>1. PICK q \in Nat, n \in Nat : q = h * 10 + l /\ n = 1
    BY <1>3
  <2>2. q + n <= t.size
    BY <1>3, <2>1
  <2>3. ExtCodeCopy(p + q, n) = [k \in 1..n |-> EncodedByte(t, q + k - 1)]
    <3>1. Copies(t, p)
      BY CopiedBytes, Zenon
    <3> QED BY <2>2, <3>1, Zenon DEF Copies
  <2> QED BY <2>1, <2>3
<1>5. EncodedByte(t, h * 10 + l + 1 - 1) = Byte(t.name, h, l, 0)
  <2>1. (h * 10 + l + 1 - 1) \div 1 = h * 10 + l /\ (h * 10 + l + 1 - 1) % 1 = 0
    OBVIOUS
  <2>2. (h * 10 + l) \div 10 = h /\ (h * 10 + l) % 10 = l
    OBVIOUS
  <2> QED BY <1>1, <2>1, <2>2 DEF EncodedByte
<1>6. SmallEntry(p, idx) = ExtCodeCopy(p + (h * 10 + l), 1)
  <2>1. p + h * 10 + l = p + (h * 10 + l)
    BY DEF InPlace
  <2> QED BY <1>2, <2>1 DEF SmallEntry
<1>7. PICK b : b = EncodedByte(t, h * 10 + l + 1 - 1)
  OBVIOUS
<1>8. [k \in 1..1 |-> EncodedByte(t, h * 10 + l + k - 1)] = <<b>>
  <2>1. ASSUME NEW k \in 1..1
        PROVE  EncodedByte(t, h * 10 + l + k - 1) = <<b>>[k]
    BY <1>7
  <2> QED BY <2>1
<1> QED BY <1>2, <1>4, <1>5, <1>6, <1>7, <1>8

(***************************************************************************)
(* The lookups of the readers.                                             *)
(***************************************************************************)
LEMMA Named ==
  /\ LogTableDec.name = "log" /\ LogTableDecSmall.name = "logSmall"
  /\ LogTableDecSmallAlt.name = "logSmallAlt" /\ AntiLogTableDec.name = "antilog"
  /\ AntiLogTableDecSmall.name = "antilogSmall"
  /\ LogTableDec.rows = LogRows /\ LogTableDecSmall.rows = LogRows
  /\ LogTableDecSmallAlt.rows = AltRows
  /\ AntiLogTableDec.rows = AntilogRows /\ AntiLogTableDecSmall.rows = AntilogRows
BY DEF LogTableDec, LogTableDecSmall, LogTableDecSmallAlt, AntiLogTableDec, AntiLogTableDecSmall

(***************************************************************************)
(* Which tables are which.                                                 *)
(***************************************************************************)
LEMMA MainAndSmallTables ==
  /\ TwoBytes(LogTableDec) /\ TwoBytes(AntiLogTableDec)
  /\ OneByte(LogTableDecSmall) /\ OneByte(LogTableDecSmallAlt) /\ OneByte(AntiLogTableDecSmall)
BY DEF TwoBytes, OneByte, LogTableDec, LogTableDecSmall, LogTableDecSmallAlt, AntiLogTableDec,
   AntiLogTableDecSmall

(***************************************************************************)
(* Where the readers look.                                                 *)
(***************************************************************************)
LEMMA Starts ==
  /\ StartOf(1) \in Nat /\ StartOf(2) \in Nat /\ StartOf(3) \in Nat
  /\ StartOf(4) \in Nat /\ StartOf(5) \in Nat
  /\ StartOf(1) = 1 /\ StartOf(2) = LogTableSizeBytes + 1 + 0
  /\ StartOf(3) = LogTableSizeBytes + 1 + LogTableSizeBase
  /\ StartOf(4) = 1 + LogTableSizeBytes + LogTableSizeBase + AltSmallLogTableSizeBytes
  /\ StartOf(5) = StartOf(4) + AntilogTableSizeBytes
<1>1. /\ StartOf(1) = 1 /\ StartOf(2) = 1 + LogTableSizeBytes
      /\ StartOf(3) = 1 + LogTableSizeBytes + LogTableSizeBase
      /\ StartOf(4) = 1 + LogTableSizeBytes + LogTableSizeBase + AltSmallLogTableSizeBytes
      /\ StartOf(5) = 1 + LogTableSizeBytes + LogTableSizeBase + AltSmallLogTableSizeBytes
                        + AntilogTableSizeBytes
  BY DEF StartOf
<1> QED BY <1>1, Sizes

(***************************************************************************)
(* A main entry and a small one joined.                                    *)
(***************************************************************************)
LEMMA MainAndSmall ==
  ASSUME NEW a, NEW b, NEW c
  PROVE  <<a, b>> \o <<c>> = <<a, b, c>>
<1> DEFINE S == {a, b, c}
           s == <<a, b>> \o <<c>>
<1>1. <<a, b>> \in Seq(S) /\ <<c>> \in Seq(S) /\ Len(<<a, b>>) = 2 /\ Len(<<c>>) = 1
  OBVIOUS
<1>2. s \in Seq(S) /\ Len(s) = 3 /\ s[1] = a /\ s[2] = b /\ s[3] = c
  BY <1>1
<1>3. <<a, b, c>> \in Seq(S) /\ Len(<<a, b, c>>) = 3
  OBVIOUS
<1> HIDE DEF s, S
<1>4. \A k \in 1..3 : s[k] = <<a, b, c>>[k]
  BY <1>2
<1>5. s = <<a, b, c>>
  BY <1>2, <1>3, <1>4, SeqEqual
<1> QED BY <1>5 DEF s

(***************************************************************************)
(* lookupLogTableVal finds the entry, by the small table that its flag     *)
(* selects.                                                                *)
(***************************************************************************)
LEMMA LogLookup ==
  ASSUME tables = DataContract, NEW idx \in 0..LogLastIndex
  PROVE  LookupLogTableVal(idx) = LogEntry(idx)
<1>1. /\ idx \in Nat /\ idx \div 100 < LogTableDec.rows /\ idx \div 100 < LogTableDecSmall.rows
      /\ LogTableDecSmallAlt.rows = AltRows /\ AltRows \in Nat
  BY Sizes, Named
<1>2. PICK r, c, l : r = idx \div 100 /\ c = (idx \div 10) % 10 /\ l = idx % 10
  OBVIOUS
<1>3. MainEntry(1, idx) = <<Byte("log", r, c, 0), Byte("log", r, c, 1)>>
  <2>1. MainEntry(StartOf(1), idx) = <<Byte(LogTableDec.name, r, c, 0), Byte(LogTableDec.name, r, c, 1)>>
    BY <1>1, <1>2, MainAndSmallTables, DataContractHoldsTables, MainEntryFound, Zenon
  <2> QED BY <2>1, Named, Starts
<1>4. IsFlagged(MainEntry(1, idx)) <=> <<r, c>> \in Flagged
  BY <1>3 DEF IsFlagged, Byte
<1>5. CASE <<r, c>> \in Flagged
  <2>1. idx \div 100 < LogTableDecSmallAlt.rows
    BY <1>1, <1>2, <1>5, TablesAssumption
  <2>2. SmallEntry(StartOf(3), idx) = <<Byte(LogTableDecSmallAlt.name, r, l, 0)>>
    BY <1>1, <1>2, <2>1, MainAndSmallTables, DataContractHoldsTables, SmallEntryFound, Zenon
  <2>3. LookupLogTableVal(idx) = MainEntry(1, idx) \o SmallEntry(StartOf(3), idx)
    BY <1>4, <1>5, Starts DEF LookupLogTableVal
  <2>4. LogEntry(idx) = <<Byte("log", r, c, 0), Byte("log", r, c, 1), Byte("logSmallAlt", r, l, 0)>>
    BY <1>2, <1>5 DEF LogEntry, EntryOf
  <2>5. LookupLogTableVal(idx)
          = <<Byte("log", r, c, 0), Byte("log", r, c, 1)>> \o <<Byte("logSmallAlt", r, l, 0)>>
    BY <1>3, <2>2, <2>3, Named
  <2> QED BY <2>4, <2>5, MainAndSmall
<1>6. CASE <<r, c>> \notin Flagged
  <2>1. SmallEntry(StartOf(2), idx) = <<Byte(LogTableDecSmall.name, r, l, 0)>>
    BY <1>1, <1>2, MainAndSmallTables, DataContractHoldsTables, SmallEntryFound, Zenon
  <2>2. LookupLogTableVal(idx) = MainEntry(1, idx) \o SmallEntry(StartOf(2), idx)
    BY <1>4, <1>6, Starts DEF LookupLogTableVal
  <2>3. LogEntry(idx) = <<Byte("log", r, c, 0), Byte("log", r, c, 1), Byte("logSmall", r, l, 0)>>
    BY <1>2, <1>6 DEF LogEntry, EntryOf
  <2>4. LookupLogTableVal(idx)
          = <<Byte("log", r, c, 0), Byte("log", r, c, 1)>> \o <<Byte("logSmall", r, l, 0)>>
    BY <1>3, <2>1, <2>2, Named
  <2> QED BY <2>3, <2>4, MainAndSmall
<1> QED BY <1>5, <1>6

(***************************************************************************)
(* lookupAntilogTableVal finds the entry.                                  *)
(***************************************************************************)
LEMMA AntilogLookup ==
  ASSUME tables = DataContract, NEW idx \in 0..AntilogLastIndex
  PROVE  LookupAntilogTableVal(idx) = AntilogEntry(idx)
<1>1. /\ idx \in Nat /\ idx \div 100 < AntiLogTableDec.rows
      /\ idx \div 100 < AntiLogTableDecSmall.rows
  BY Sizes, Named
<1>2. PICK r, c, l : r = idx \div 100 /\ c = (idx \div 10) % 10 /\ l = idx % 10
  OBVIOUS
<1>3. MainEntry(StartOf(4), idx)
        = <<Byte(AntiLogTableDec.name, r, c, 0), Byte(AntiLogTableDec.name, r, c, 1)>>
  BY <1>1, <1>2, MainAndSmallTables, DataContractHoldsTables, MainEntryFound, Zenon
<1>4. SmallEntry(StartOf(5), idx) = <<Byte(AntiLogTableDecSmall.name, r, l, 0)>>
  BY <1>1, <1>2, MainAndSmallTables, DataContractHoldsTables, SmallEntryFound, Zenon
<1>5. LookupAntilogTableVal(idx) = MainEntry(StartOf(4), idx) \o SmallEntry(StartOf(5), idx)
  BY Starts DEF LookupAntilogTableVal
<1>6. LookupAntilogTableVal(idx)
        = <<Byte("antilog", r, c, 0), Byte("antilog", r, c, 1)>> \o <<Byte("antilogSmall", r, l, 0)>>
  BY <1>3, <1>4, <1>5, Named
<1>7. AntilogEntry(idx)
        = <<Byte("antilog", r, c, 0), Byte("antilog", r, c, 1), Byte("antilogSmall", r, l, 0)>>
  BY <1>2 DEF AntilogEntry, EntryOf
<1> QED BY <1>6, <1>7, MainAndSmall
-----------------------------------------------------------------------------
(***************************************************************************)
(* The invariant.                                                          *)
(***************************************************************************)

LEMMA InitTables ==
  ASSUME Init
  PROVE  TablesInv
<1>1. table = 1 /\ 1 \in 1..5 /\ Current = CombinedTables[1] /\ Current \in AllTables
  BY FiveTables DEF Init, Current
<1>2. row = Current.rows - 1 /\ col = 9 /\ end = Current.size /\ bytes = Blank(Current)
  BY <1>1 DEF Init, Start, Current
<1>3. Joined(1) = <<>> /\ code = <<>>
  BY DEF Joined, Init
<1>4. Building
  BY <1>1, <1>2, <1>3, StartsAtTheEnd DEF Building
<1>5. tables = <<>> /\ contract = "none" /\ call = Nothing
  BY DEF Init
<1> QED BY <1>4, <1>5 DEF TablesInv, LookupsFindTheirEntries

(***************************************************************************)
(* A round of the loop.                                                    *)
(***************************************************************************)
LEMMA EncodeKeepsInv ==
  ASSUME TablesInv, EncodeEntry
  PROVE  TablesInv'
<1>1. /\ table \in 1..5 /\ Current \in AllTables /\ (Current.width = 1 \/ Current.width = 2)
      /\ col \in 0..9 /\ row \in Int /\ row >= -1 /\ (row = -1 => col = 9)
      /\ end = Current.width * (row * 10 + col + 1) /\ bytes = BytesWritten(Current, end)
      /\ end > 0
  BY FiveTables, TableShape DEF TablesInv, Building, Current, EncodeEntry
<1>2. row \in Nat
  BY <1>1
<1>3. bytes' = BytesWritten(Current, end - Current.width)
  BY <1>1, <1>2, EntryIsStored DEF EncodeEntry
<1>4. /\ table' = table /\ Current' = Current /\ end' = end - Current.width /\ code' = code
      /\ IF col = 0 THEN row' = row - 1 /\ col' = 9 ELSE row' = row /\ col' = col - 1
  BY DEF EncodeEntry, PreviousEntry, Current
<1>5. /\ col' \in 0..9 /\ row' \in Int /\ row' >= -1 /\ (row' = -1 => col' = 9)
      /\ row' * 10 + col' + 1 = row * 10 + col
  BY <1>1, <1>2, <1>4
<1>6. end' = Current.width * (row' * 10 + col' + 1)
  BY <1>1, <1>2, <1>4, <1>5
<1>7. bytes' = BytesWritten(Current, end')
  BY <1>3, <1>4
<1>8. Building'
  BY <1>1, <1>4, <1>5, <1>6, <1>7 DEF TablesInv, Building, BytesWritten
<1>9. UNCHANGED <<tables, contract, call, out>>
  BY DEF EncodeEntry, chain
<1> QED BY <1>8, <1>9 DEF TablesInv, LookupsFindTheirEntries, DataContract

(***************************************************************************)
(* The tables joined so far, one after the other.                          *)
(***************************************************************************)
LEMMA JoinedTables ==
  /\ Joined(1) = <<>> /\ Joined(2) = Encoded(LogTableDec)
  /\ Joined(3) = Joined(2) \o Encoded(LogTableDecSmall)
  /\ Joined(4) = Joined(3) \o Encoded(LogTableDecSmallAlt)
  /\ Joined(5) = Joined(4) \o Encoded(AntiLogTableDec)
  /\ Joined(5) \in Seq(Bytes)
<1>1. /\ Joined(1) = <<>> /\ Joined(2) = Encoded(LogTableDec)
      /\ Joined(3) = Joined(2) \o Encoded(LogTableDecSmall)
      /\ Joined(4) = Joined(3) \o Encoded(LogTableDecSmallAlt)
      /\ Joined(5) = Joined(4) \o Encoded(AntiLogTableDec)
  <2>1. /\ 2 # 1 /\ 3 # 1 /\ 3 # 2 /\ 4 # 1 /\ 4 # 2 /\ 4 # 3
        /\ 5 # 1 /\ 5 # 2 /\ 5 # 3 /\ 5 # 4
    OBVIOUS
  <2> QED BY <2>1, Zenon DEF Joined
<1>2. /\ Encoded(LogTableDec) \in Seq(Bytes) /\ Encoded(LogTableDecSmall) \in Seq(Bytes)
      /\ Encoded(LogTableDecSmallAlt) \in Seq(Bytes) /\ Encoded(AntiLogTableDec) \in Seq(Bytes)
  BY EncodedTable DEF AllTables
<1>3. Joined(3) \in Seq(Bytes)
  BY <1>1, <1>2, JoinHolds, Zenon
<1>4. Joined(4) \in Seq(Bytes)
  BY <1>1, <1>2, <1>3, JoinHolds, Zenon
<1>5. Joined(5) \in Seq(Bytes)
  BY <1>1, <1>2, <1>4, JoinHolds, Zenon
<1> QED BY <1>1, <1>5

(***************************************************************************)
(* A table is joined and the next one begun.                               *)
(***************************************************************************)
LEMMA NextTableKeepsInv ==
  ASSUME TablesInv, NextTable
  PROVE  TablesInv'
<1>1. /\ Building /\ end <= 0 /\ table \in 1..4 /\ table' = table + 1
      /\ code = Joined(table) /\ code' = code \o TableBytes
  BY FiveTables DEF TablesInv, Building, NextTable
<1>2. TableBytes = Encoded(CombinedTables[table])
  BY <1>1, TableIsEncoded DEF Current
<1>3. code' = Joined(table + 1)
  <2>1. /\ CombinedTables[1] = LogTableDec /\ CombinedTables[2] = LogTableDecSmall
        /\ CombinedTables[3] = LogTableDecSmallAlt /\ CombinedTables[4] = AntiLogTableDec
    BY DEF CombinedTables
  <2>2. /\ Joined(1) = <<>> /\ Joined(2) = Encoded(LogTableDec)
        /\ Joined(3) = Joined(2) \o Encoded(LogTableDecSmall)
        /\ Joined(4) = Joined(3) \o Encoded(LogTableDecSmallAlt)
        /\ Joined(5) = Joined(4) \o Encoded(AntiLogTableDec)
    BY JoinedTables
  <2>3. CASE table = 1
    <3>1. code' = <<>> \o Encoded(LogTableDec)
      BY <1>1, <1>2, <2>1, <2>2, <2>3
    <3>2. <<>> \o Encoded(LogTableDec) = Encoded(LogTableDec)
      <4>1. LogTableDec \in AllTables
        BY DEF AllTables
      <4>2. Encoded(LogTableDec) \in Seq(Bytes)
        BY <4>1, EncodedTable
      <4> QED BY <4>2, ConcatEmptySeq
    <3>3. table + 1 = 2
      BY <2>3
    <3> QED BY <2>2, <3>1, <3>2, <3>3
  <2>4. CASE table = 2
    <3>1. table + 1 = 3
      BY <2>4
    <3> QED BY <1>1, <1>2, <2>1, <2>2, <2>4, <3>1
  <2>5. CASE table = 3
    <3>1. table + 1 = 4
      BY <2>5
    <3> QED BY <1>1, <1>2, <2>1, <2>2, <2>5, <3>1
  <2>6. CASE table = 4
    <3>1. table + 1 = 5
      BY <2>6
    <3> QED BY <1>1, <1>2, <2>1, <2>2, <2>6, <3>1
  <2> QED BY <1>1, <2>3, <2>4, <2>5, <2>6
<1>4. /\ table' \in 1..5 /\ Current' = CombinedTables[table + 1] /\ Current' \in AllTables
      /\ row' = Current'.rows - 1 /\ col' = 9 /\ end' = Current'.size /\ bytes' = Blank(Current')
  BY <1>1, FiveTables DEF NextTable, Current
<1>5. /\ row' \in Int /\ row' >= -1 /\ row' # -1
      /\ end' = Current'.width * (row' * 10 + 9 + 1)
      /\ bytes' = BytesWritten(Current', end')
  BY <1>4, StartsAtTheEnd
<1>6. Building'
  BY <1>1, <1>3, <1>4, <1>5 DEF Building, BytesWritten
<1>7. UNCHANGED <<tables, contract, call, out>>
  BY DEF NextTable, chain
<1> QED BY <1>6, <1>7 DEF TablesInv, LookupsFindTheirEntries, DataContract

(***************************************************************************)
(* The data contract is the tables joined.                                 *)
(***************************************************************************)
LEMMA DeployKeepsInv ==
  ASSUME TablesInv, DeployTables
  PROVE  TablesInv'
<1>1. Building /\ end <= 0 /\ table = 5 /\ code = Joined(5)
  BY FiveTables DEF TablesInv, Building, DeployTables
<1>2. TableBytes = Encoded(AntiLogTableDecSmall)
  BY <1>1, TableIsEncoded DEF Current, CombinedTables
<1>3. tables' = DataContract
  <2>1. tables' = <<Zero>> \o code \o TableBytes \o [k \in 1..32 |-> Disambiguator]
    BY DEF DeployTables
  <2>2. PICK z, a, b : z = <<Zero>> /\ a = Joined(5) /\ b = Encoded(AntiLogTableDecSmall)
    OBVIOUS
  <2>3. z \in Seq(Bytes) /\ a \in Seq(Bytes) /\ b \in Seq(Bytes)
    <3>1. z \in Seq(Bytes)
      BY <2>2 DEF Zero, Bytes
    <3>2. AntiLogTableDecSmall \in AllTables
      BY DEF AllTables
    <3> QED BY <2>2, <3>1, <3>2, JoinedTables, EncodedTable
  <2>4. (z \o a) \o b = z \o (a \o b)
    BY <2>3, ConcatAssociative
  <2> QED BY <1>1, <1>2, <2>1, <2>2, <2>4, Zenon DEF DataContract
<1>4. tables' # <<>>
  <2>1. Len(DataContract) >= 1
    <3>1. LogTableDec \in AllTables /\ LogTableDec.size = LogTableSizeBytes
      BY DEF AllTables, LogTableDec
    <3>2. Len(Encoded(LogTableDec)) = LogTableSizeBytes
      BY <3>1, EncodedTable
    <3>3. 1 \in 1..Len(Encoded(LogTableDec))
      BY <3>2, Sizes
    <3>4. StartOf(1) + 1 \in 1..Len(DataContract) /\ StartOf(1) \in Nat
      BY <3>3, DataContractHoldsTables DEF InPlace, Holds
    <3> QED BY <3>4
  <2> QED BY <1>3, <2>1
<1>5. Building'
  BY <1>1 DEF DeployTables, Building, BytesWritten, Current
<1> QED BY <1>3, <1>4, <1>5 DEF TablesInv, LookupsFindTheirEntries, DataContract, DeployTables

(***************************************************************************)
(* A contract is deployed, and its lookups answered.                       *)
(***************************************************************************)
LEMMA ContractKeepsInv ==
  ASSUME TablesInv, DeployContract
  PROVE  TablesInv'
<1>1. tables # <<>> /\ UNCHANGED <<pc, table, row, col, end, bytes, code, tables, call, out>>
  BY DEF DeployContract, CheckLogTablesDeployed
<1>2. Building'
  BY <1>1 DEF TablesInv, Building, BytesWritten, Current
<1> QED BY <1>1, <1>2 DEF TablesInv, LookupsFindTheirEntries, DataContract

(***************************************************************************)
(* Readers change nothing but the lookup.                                  *)
(***************************************************************************)
LEMMA ReadersKeepInv ==
  ASSUME TablesInv, UNCHANGED <<pc, table, row, col, end, bytes, code, chain>>,
         LookupsFindTheirEntries'
  PROVE  TablesInv'
<1>1. Building'
  BY DEF TablesInv, Building, BytesWritten, Current
<1> QED BY <1>1 DEF TablesInv, DataContract, chain

(***************************************************************************)
(* log10 looks up its index and the next one, but for the last.            *)
(***************************************************************************)
LEMMA LogKeepsInv ==
  ASSUME TablesInv, NEW idx \in 0..LogLastIndex, NEW interpolate \in BOOLEAN,
         LookUpLog(idx, interpolate)
  PROVE  TablesInv'
<1>1. tables = DataContract
  BY DEF TablesInv, LookUpLog
<1>2. LookupLogTableVal(idx) = LogEntry(idx)
  BY <1>1, LogLookup
<1>3. idx # LogLastIndex => LookupLogTableVal(idx + 1) = LogEntry(idx + 1)
  <2>1. idx # LogLastIndex => idx + 1 \in 0..LogLastIndex
    BY Sizes
  <2> QED BY <1>1, <2>1, LogLookup
<1>4. call' = <<"log10", idx, interpolate>>
  BY DEF LookUpLog
<1>5. /\ call'[1] = "log10" /\ call'[2] = idx /\ call'[3] = interpolate
  BY <1>4
<1>6. /\ out'[1] = LogEntry(idx)
      /\ interpolate => out'[2] = IF idx = LogLastIndex THEN One ELSE LogEntry(idx + 1)
  BY <1>2, <1>3 DEF LookUpLog
<1>7. LookupsFindTheirEntries'
  BY <1>5, <1>6, Zenon DEF LookupsFindTheirEntries
<1>8. UNCHANGED <<pc, table, row, col, end, bytes, code, chain>>
  BY DEF LookUpLog
<1> QED BY <1>7, <1>8, ReadersKeepInv

(***************************************************************************)
(* pow10 does not look the last index up, so it has a next one.            *)
(***************************************************************************)
LEMMA AntilogKeepsInv ==
  ASSUME TablesInv, NEW idx \in 0..AntilogLastIndex, NEW interpolate \in BOOLEAN,
         LookUpAntilog(idx, interpolate)
  PROVE  TablesInv'
<1>1. tables = DataContract /\ idx # AntilogLastIndex
  BY DEF TablesInv, LookUpAntilog
<1>2. LookupAntilogTableVal(idx) = AntilogEntry(idx)
  BY <1>1, AntilogLookup
<1>3. LookupAntilogTableVal(idx + 1) = AntilogEntry(idx + 1)
  <2>1. idx + 1 \in 0..AntilogLastIndex
    BY <1>1, Sizes
  <2> QED BY <1>1, <2>1, AntilogLookup
<1>4. call' = <<"pow10", idx, interpolate>>
  BY DEF LookUpAntilog
<1>5. /\ call'[1] = "pow10" /\ call'[2] = idx /\ call'[3] = interpolate
      /\ call'[1] # "log10"
  BY <1>4
<1>6. out'[1] = AntilogEntry(idx) /\ (interpolate => out'[2] = AntilogEntry(idx + 1))
  BY <1>2, <1>3 DEF LookUpAntilog
<1>7. LookupsFindTheirEntries'
  BY <1>1, <1>5, <1>6, Zenon DEF LookupsFindTheirEntries
<1>8. UNCHANGED <<pc, table, row, col, end, bytes, code, chain>>
  BY DEF LookUpAntilog
<1> QED BY <1>7, <1>8, ReadersKeepInv

(***************************************************************************)
(* Every step keeps the invariant.                                         *)
(***************************************************************************)
LEMMA StepTables ==
  ASSUME TablesInv, [Next]_vars
  PROVE  TablesInv'
<1>1. CASE Encode
  BY <1>1, EncodeKeepsInv, NextTableKeepsInv, DeployKeepsInv DEF Encode
<1>2. CASE DeployContract
  BY <1>2, ContractKeepsInv
<1>3. ASSUME NEW idx \in 0..LogLastIndex, NEW interpolate \in BOOLEAN, LookUpLog(idx, interpolate)
      PROVE  TablesInv'
  BY <1>3, LogKeepsInv
<1>4. ASSUME NEW idx \in 0..AntilogLastIndex, NEW interpolate \in BOOLEAN,
             LookUpAntilog(idx, interpolate)
      PROVE  TablesInv'
  BY <1>4, AntilogKeepsInv
<1>5. CASE TakeResult
  <2>1. LookupsFindTheirEntries'
    BY <1>5 DEF TakeResult, LookupsFindTheirEntries
  <2> QED BY <1>5, <2>1, ReadersKeepInv DEF TakeResult
<1>6. CASE UNCHANGED vars
  <2>1. LookupsFindTheirEntries'
    BY <1>6 DEF vars, LookupsFindTheirEntries, TablesInv
  <2> QED BY <1>6, <2>1, ReadersKeepInv DEF vars, chain
<1> QED BY <1>1, <1>2, <1>3, <1>4, <1>5, <1>6 DEF Next

(***************************************************************************)
(* Every lookup of a live contract finds its own entry and the one of its  *)
(* neighbour, for any number of rows and any marks: the encoder's cursor,  *)
(* the order of the joined tables and the readers' offsets agree.          *)
(***************************************************************************)
THEOREM LookupsAreRight == Spec => []LookupsFindTheirEntries
<1>1. Init => TablesInv
  BY InitTables
<1>2. TablesInv /\ [Next]_vars => TablesInv'
  BY StepTables
<1>3. TablesInv => LookupsFindTheirEntries
  BY DEF TablesInv
<1> QED BY <1>1, <1>2, <1>3, PTL DEF Spec

=============================================================================

----------------------------- MODULE LogTables -----------------------------
(***************************************************************************)
(* The log tables as bytes: LibLogTable.toBytes writes each table into     *)
(* memory from its last entry to its first, combinedTables joins them into *)
(* the code of a data contract, and log10 and pow10 find their entries     *)
(* there by index arithmetic.  The DecimalFloat contract that looks them   *)
(* up is deployed apart from them, and checks that they are there.         *)
(*                                                                         *)
(* A table entry is symbolic: a byte is the tuple <<table, row, column,    *)
(* byte>> of where it came from, so a lookup shows which entry it found.   *)
(***************************************************************************)
EXTENDS Integers, Sequences

CONSTANTS
  LogRows,      \* 90: rows of ten entries, one per two leading digits
  AltRows,      \* 10: rows of the alternative small log table
  AntilogRows,  \* 100
  Flagged       \* the entries <<row, column>> marked with ALT_TABLE_FLAG

(***************************************************************************)
(* Only entries of rows that the alternative table has are marked.         *)
(***************************************************************************)
ASSUME TablesAssumption ==
  /\ LogRows \in Nat \ {0} /\ AltRows \in 1..LogRows /\ AntilogRows \in Nat \ {0}
  /\ Flagged \subseteq (0..(AltRows - 1)) \X (0..9)

LogCardinality     == 100 * LogRows
LogLastIndex       == LogCardinality - 1
AntilogCardinality == 100 * AntilogRows
AntilogLastIndex   == AntilogCardinality - 1

LogTableSizeBase      == LogCardinality \div 10
LogTableSizeBytes     == LogTableSizeBase * 2
AltSmallLogTableSizeBytes == 10 * AltRows
AntilogTableSizeBytes == 20 * AntilogRows
AntilogTableSmallSizeBytes == 10 * AntilogRows

(***************************************************************************)
(* The five tables, in the order combinedTables joins them: their rows,    *)
(* the bytes of an entry, and the size toBytes allocates.                  *)
(***************************************************************************)
LogTableDec       == [name |-> "log", rows |-> LogRows, width |-> 2, size |-> LogTableSizeBytes]
LogTableDecSmall  == [name |-> "logSmall", rows |-> LogRows, width |-> 1, size |-> LogTableSizeBase]
LogTableDecSmallAlt == [name |-> "logSmallAlt", rows |-> AltRows, width |-> 1,
                        size |-> AltSmallLogTableSizeBytes]
AntiLogTableDec   == [name |-> "antilog", rows |-> AntilogRows, width |-> 2,
                      size |-> AntilogTableSizeBytes]
AntiLogTableDecSmall == [name |-> "antilogSmall", rows |-> AntilogRows, width |-> 1,
                         size |-> AntilogTableSmallSizeBytes]

CombinedTables == <<LogTableDec, LogTableDecSmall, LogTableDecSmallAlt,
                    AntiLogTableDec, AntiLogTableDecSmall>>

Zero   == <<"zero", 0, 0, 0>>
Disambiguator == <<"disambiguator", 0, 0, 0>>
Byte(t, i, j, k) == <<t, i, j, k>>

VARIABLES
  pc,        \* "encode", "deployed": of the tables
  table,     \* the index of the table being encoded
  row, col,  \* the entry toBytes reads next: its i and j
  end,       \* its cursor: the entry is written before this offset
  bytes,     \* the encoded table: a function from offsets to bytes
  code,      \* the tables joined so far
  tables,    \* the code at the tables' address on the chain
  contract,  \* DecimalFloat: "none", "live"
  call,      \* the lookup of the last call
  out        \* the bytes it found

vars == <<pc, table, row, col, end, bytes, code, tables, contract, call, out>>
chain == <<tables, contract>>

-----------------------------------------------------------------------------

Blank(t) == [k \in 0..(t.size - 1) |-> Zero]

Start(t) == /\ row = t.rows - 1 /\ col = 9 /\ end = t.size /\ bytes = Blank(t)

Nothing == <<"none">>

Init == /\ pc = "encode" /\ table = 1 /\ Start(CombinedTables[1])
        /\ code = <<>> /\ tables = <<>> /\ contract = "none"
        /\ call = Nothing /\ out = Nothing

Current == CombinedTables[table]

(***************************************************************************)
(* mstore writes a word of 32 bytes; the entry is its last ones, and the   *)
(* zeros in front of it fall on bytes that are written later.              *)
(***************************************************************************)
Stored(t, value(_)) ==
  [k \in DOMAIN bytes |->
     IF k \in (end - t.width)..(end - 1) THEN value(k - (end - t.width))
     ELSE IF k \in (end - 32)..(end - 1) THEN Zero ELSE bytes[k]]

PreviousEntry == IF col = 0 THEN row' = row - 1 /\ col' = 9
                            ELSE row' = row /\ col' = col - 1

(***************************************************************************)
(* Mutant of EncodeEntry: the loop without its cursor's step.              *)
(***************************************************************************)
EncodeEntryInPlace ==
  /\ pc = "encode" /\ end > 0
  /\ bytes' = Stored(Current, LAMBDA k : Byte(Current.name, row, col, k))
  /\ UNCHANGED <<pc, table, row, col, end, code, chain, call, out>>

(***************************************************************************)
(* A round of the loop of toBytes.                                         *)
(***************************************************************************)
EncodeEntry ==
  /\ pc = "encode" /\ end > 0
  /\ bytes' = Stored(Current, LAMBDA k : Byte(Current.name, row, col, k))
  /\ end' = end - Current.width
  /\ PreviousEntry
  /\ UNCHANGED <<pc, table, code, chain, call, out>>

TableBytes == [k \in 1..Current.size |-> bytes[k - 1]]

NextTable ==
  /\ pc = "encode" /\ end <= 0 /\ table < Len(CombinedTables)
  /\ code' = code \o TableBytes
  /\ table' = table + 1
  /\ LET t == CombinedTables[table + 1]
     IN  row' = t.rows - 1 /\ col' = 9 /\ end' = t.size /\ bytes' = Blank(t)
  /\ UNCHANGED <<pc, chain, call, out>>

(***************************************************************************)
(* A data contract starts with a zero byte that halts whoever calls it.    *)
(* The disambiguator makes its address unique.                             *)
(***************************************************************************)
DeployTables ==
  /\ pc = "encode" /\ end <= 0 /\ table = Len(CombinedTables)
  /\ tables' = <<Zero>> \o code \o TableBytes \o [k \in 1..32 |-> Disambiguator]
  /\ pc' = "deployed"
  /\ UNCHANGED <<table, row, col, end, bytes, code, contract, call, out>>

(***************************************************************************)
(* The constructor of DecimalFloat compares the code hash at the tables'   *)
(* address with the expected one.  The address is made from the code, so   *)
(* there is either no code or the right one.                               *)
(***************************************************************************)
CheckLogTablesDeployed == tables # <<>>

(***************************************************************************)
(* Mutant of DeployContract: no check.                                     *)
(***************************************************************************)
DeployContractUnchecked ==
  /\ contract = "none"
  /\ contract' = "live"
  /\ UNCHANGED <<pc, table, row, col, end, bytes, code, tables, call, out>>

(***************************************************************************)
(* The contract's own suite may be run at any time, also before that of    *)
(* the tables: its simulation plants them if the chain has none, and the   *)
(* transaction then reverts.                                               *)
(***************************************************************************)
DeployContract ==
  /\ contract = "none" /\ CheckLogTablesDeployed
  /\ contract' = "live"
  /\ UNCHANGED <<pc, table, row, col, end, bytes, code, tables, call, out>>

-----------------------------------------------------------------------------

(***************************************************************************)
(* extcodecopy of n bytes at an offset, into zeroed memory.                *)
(***************************************************************************)
ExtCodeCopy(offset, n) ==
  [k \in 1..n |-> IF offset + k <= Len(tables) THEN tables[offset + k] ELSE Zero]

MainEntry(offset, index) == ExtCodeCopy(offset + (index \div 10) * 2, 2)
SmallEntry(offset, index) == ExtCodeCopy(offset + (index \div 100) * 10 + (index % 10), 1)

IsFlagged(entry) == <<entry[1][2], entry[1][3]>> \in Flagged

(***************************************************************************)
(* Mutant of LookupLogTableVal: the alternative table taken to follow the  *)
(* main one.                                                               *)
(***************************************************************************)
LookupLogTableValAltFirst(index) ==
  LET main  == MainEntry(1, index)
      small == LogTableSizeBytes + 1 + (IF IsFlagged(main) THEN 0 ELSE LogTableSizeBase)
  IN  main \o SmallEntry(small, index)

(***************************************************************************)
(* lookupLogTableVal.  The flag of the main entry selects the small table. *)
(***************************************************************************)
LookupLogTableVal(index) ==
  LET main  == MainEntry(1, index)
      small == LogTableSizeBytes + 1 + (IF IsFlagged(main) THEN LogTableSizeBase ELSE 0)
  IN  main \o SmallEntry(small, index)

LookupAntilogTableVal(index) ==
  LET offset == 1 + LogTableSizeBytes + LogTableSizeBase + AltSmallLogTableSizeBytes
  IN  MainEntry(offset, index) \o SmallEntry(offset + AntilogTableSizeBytes, index)

(***************************************************************************)
(* log10 looks its index up and, to interpolate, the next one; the last    *)
(* index has no next entry and the logarithm there is one.  pow10 does not *)
(* look its last index up at all.                                          *)
(***************************************************************************)
One == <<"one">>

LookUpLog(idx, interpolate) ==
  /\ contract = "live" /\ call = Nothing
  /\ call' = <<"log10", idx, interpolate>>
  /\ out' = <<LookupLogTableVal(idx),
              CASE ~interpolate -> Nothing
                [] interpolate /\ idx = LogLastIndex -> One
                [] interpolate /\ idx # LogLastIndex -> LookupLogTableVal(idx + 1)>>
  /\ UNCHANGED <<pc, table, row, col, end, bytes, code, chain>>

LookUpAntilog(idx, interpolate) ==
  /\ contract = "live" /\ call = Nothing /\ idx # AntilogLastIndex
  /\ call' = <<"pow10", idx, interpolate>>
  /\ out' = <<LookupAntilogTableVal(idx),
              IF interpolate THEN LookupAntilogTableVal(idx + 1) ELSE Nothing>>
  /\ UNCHANGED <<pc, table, row, col, end, bytes, code, chain>>

TakeResult == /\ call # Nothing /\ call' = Nothing /\ out' = Nothing
              /\ UNCHANGED <<pc, table, row, col, end, bytes, code, chain>>

Encode == EncodeEntry \/ NextTable \/ DeployTables

Next == \/ Encode
        \/ DeployContract
        \/ \E idx \in 0..LogLastIndex, interpolate \in BOOLEAN : LookUpLog(idx, interpolate)
        \/ \E idx \in 0..AntilogLastIndex, interpolate \in BOOLEAN : LookUpAntilog(idx, interpolate)
        \/ TakeResult

(***************************************************************************)
(* The build runs to its end.                                              *)
(***************************************************************************)
Spec == Init /\ [][Next]_vars /\ WF_vars(Encode)

-----------------------------------------------------------------------------

(***************************************************************************)
(* Entry idx of a table pair: the main entry of its first digits and the   *)
(* small entry of its last digit, in the row of the two leading digits.    *)
(***************************************************************************)
EntryOf(main, small, idx) ==
  LET r == idx \div 100
      c == (idx \div 10) % 10
  IN  <<Byte(main, r, c, 0), Byte(main, r, c, 1), Byte(small, r, idx % 10, 0)>>

LogEntry(idx) ==
  EntryOf("log", IF <<idx \div 100, (idx \div 10) % 10>> \in Flagged
                   THEN "logSmallAlt" ELSE "logSmall", idx)

AntilogEntry(idx) == EntryOf("antilog", "antilogSmall", idx)

(***************************************************************************)
(* A lookup finds its own entry, both bytes in order, and the one of its   *)
(* neighbour when it interpolates, through the encoder's memory writes,    *)
(* the order of the tables in the contract and the offsets of the reader,  *)
(* which three different places compute; a contract that answers never     *)
(* reads from an address without tables, which would read zeros silently.  *)
(***************************************************************************)
LookupsFindTheirEntries ==
  call # Nothing =>
    LET entry(idx) == IF call[1] = "log10" THEN LogEntry(idx) ELSE AntilogEntry(idx)
        last       == IF call[1] = "log10" THEN LogLastIndex ELSE AntilogLastIndex
        idx        == call[2]
    IN  /\ out[1] = entry(idx)
        /\ call[3] => out[2] = IF idx = last THEN One ELSE entry(idx + 1)

(***************************************************************************)
(* The loop of toBytes ends for every table, and the tables are deployed.  *)
(***************************************************************************)
TablesGetDeployed == <>(tables # <<>>)
=============================================================================

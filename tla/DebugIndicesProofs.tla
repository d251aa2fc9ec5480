-------------------------- MODULE DebugIndicesProofs --------------------------
(***************************************************************************)
(* DebugIndices for every module and every numbering of the locations: the *)
(* inductive invariant IInv and the safety properties it implies, that     *)
(* every location comes back to its operation above all.                   *)
(***************************************************************************)
EXTENDS DebugIndices, SequenceFacts, SequenceTheorems, TLAPS

Rows == Len(debuginfoIndices)
Written == phase \in {"read", "done", "refused"}

(* The parts of the module have the same number of functions.              *)
Shape ==
    /\ Len(ops) = Len(locOf) /\ Len(opIndex) = Len(locOf)
    /\ current <= Len(locOf)
    /\ phase = "bodies" => current > 0

(* A function has a row if and only if its own location is not reserved.   *)
RowsByLocation ==
    \A f \in 1..Len(locOf) : HasRow(f) <=> locOf[f] \notin Reserved

(* RowsHoldLocations, entry by entry.                                      *)
RowEntries ==
    /\ \A f, g \in 1..Len(locOf) : f < g /\ HasRow(f) /\ HasRow(g) => Row(f) < Row(g)
    /\ \A f \in 1..Len(locOf) : HasRow(f) =>
          /\ Row(f) \in 1..Rows
          /\ Len(debuginfoIndices[Row(f)]) = Len(ops[f]) + 1
          /\ debuginfoIndices[Row(f)][1] = DiIndex[locOf[f]]
          /\ \A k \in 1..Len(ops[f]) : debuginfoIndices[Row(f)][k + 1] = DiIndex[ops[f][k]]

(* Only what the verifier lets pass was written.                           *)
ScopesVerified ==
    \A f \in 1..Len(locOf) : \A k \in 1..Len(ops[f]) : MayLocate(f, ops[f][k])

(* The offsets are the running sums of the lengths of the rows.            *)
OffsetsAreSums ==
    /\ Len(offsets) <= Rows
    /\ Len(offsets) = 0 => running = 0
    /\ Len(offsets) > 0 =>
          /\ offsets[1] = 0
          /\ running = offsets[Len(offsets)] + Len(debuginfoIndices[Len(offsets)])
    /\ \A r \in 1..Len(offsets) :
          r < Len(offsets) => offsets[r + 1] = offsets[r] + Len(debuginfoIndices[r])
    /\ phase \in {"functions", "bodies"} => Len(offsets) = 0
    /\ phase \in {"indices"} \/ Written => Len(offsets) = Rows

(* The rows in diIndices begin at their offsets.                           *)
IndicesHoldRows ==
    /\ rows <= Rows
    /\ Len(indices) = IF rows < Rows /\ rows > 0 THEN offsets[rows + 1]
                      ELSE IF rows = 0 THEN 0 ELSE running
    /\ \A r \in 1..rows : \A k \in 1..Len(debuginfoIndices[r]) :
          /\ offsets[r] + k <= Len(indices)
          /\ indices[offsets[r] + k] = debuginfoIndices[r][k]
    /\ phase \in {"functions", "bodies", "offsets"} => rows = 0
    /\ Written => rows = Rows

(* The reader is in the function it made last, and its iterator has moved  *)
(* once for every location it gave.                                        *)
ReaderInFunction ==
    /\ ~Written => located = <<>>
    /\ Written => Len(located) = current
    /\ \A f \in 1..Len(located) :
          /\ Len(located[f]) <= Len(ops[f]) + 1
          /\ f < current => Len(located[f]) = Len(ops[f]) + 1
    /\ Written /\ current > 0 => consumed = Len(located[current]) /\ consumed > 0

(* LocationsSurvive, with the domains spelled out.                         *)
LocationsGiven ==
    \A f \in 1..Len(located) : \A n \in 1..Len(located[f]) :
        located[f][n] = IF locOf[f] \in Reserved \/ ItemLoc(f, n) \in Reserved
                        THEN UnknownLoc ELSE ItemLoc(f, n)

IInv ==
    /\ TypeOK
    /\ Shape
    /\ RowsByLocation
    /\ ScopesVerified
    /\ RowEntries
    /\ OffsetsAreSums
    /\ IndicesHoldRows
    /\ ReaderInFunction
    /\ LocationsGiven
    /\ NeverRefused

-----------------------------------------------------------------------------
(* The values a state gives to sequences.                                  *)
LEMMA StateFacts ==
    ASSUME IInv
    PROVE  /\ Len(locOf) \in Nat /\ Len(ops) = Len(locOf) /\ Len(opIndex) = Len(locOf)
           /\ DOMAIN locOf = 1..Len(locOf) /\ DOMAIN ops = 1..Len(locOf)
           /\ DOMAIN opIndex = 1..Len(locOf)
           /\ current \in 0..Len(locOf)
           /\ \A f \in 1..Len(locOf) :
                 /\ locOf[f] \in Loc /\ opIndex[f] \in Nat
                 /\ ops[f] \in Seq(Loc) /\ Len(ops[f]) \in Nat
                 /\ DOMAIN ops[f] = 1..Len(ops[f])
                 /\ \A k \in 1..Len(ops[f]) : ops[f][k] \in Loc
  <1>1. /\ locOf \in Seq(FunctionLoc) /\ ops \in Seq(Seq(Loc)) /\ opIndex \in Seq(Nat)
        /\ current \in Nat
    BY DEF IInv, TypeOK
  <1>2. /\ Len(locOf) \in Nat /\ Len(ops) = Len(locOf) /\ Len(opIndex) = Len(locOf)
        /\ current \in 0..Len(locOf)
    BY <1>1, LenProperties DEF IInv, Shape
  <1>3. /\ DOMAIN locOf = 1..Len(locOf) /\ DOMAIN ops = 1..Len(locOf)
        /\ DOMAIN opIndex = 1..Len(locOf)
    BY <1>1, <1>2, LenProperties
  <1>4. ASSUME NEW f \in 1..Len(locOf)
        PROVE  /\ locOf[f] \in Loc /\ opIndex[f] \in Nat
               /\ ops[f] \in Seq(Loc) /\ Len(ops[f]) \in Nat
               /\ DOMAIN ops[f] = 1..Len(ops[f])
               /\ \A k \in 1..Len(ops[f]) : ops[f][k] \in Loc
    <2>1. locOf[f] \in FunctionLoc /\ ops[f] \in Seq(Loc) /\ opIndex[f] \in Nat
      BY <1>1, <1>2, ElementOfSeq
    <2> QED BY <2>1, LenProperties, ElementOfSeq DEF FunctionLoc
  <1> QED BY <1>2, <1>3, <1>4

LEMMA SectionFacts ==
    ASSUME IInv
    PROVE  /\ Rows \in Nat /\ Len(offsets) \in Nat /\ Len(indices) \in Nat
           /\ rows \in Nat /\ running \in Nat
           /\ \A r \in 1..Rows :
                 /\ debuginfoIndices[r] \in Seq(Nat) /\ Len(debuginfoIndices[r]) \in Nat
                 /\ \A k \in 1..Len(debuginfoIndices[r]) : debuginfoIndices[r][k] \in Nat
           /\ \A r \in 1..Len(offsets) : offsets[r] \in Nat
           /\ \A k \in 1..Len(indices) : indices[k] \in Nat
  <1>1. /\ debuginfoIndices \in Seq(Seq(Nat)) /\ offsets \in Seq(Nat)
        /\ indices \in Seq(Nat) /\ rows \in Nat /\ running \in Nat
    BY DEF IInv, TypeOK
  <1>2. \A r \in 1..Len(debuginfoIndices) : debuginfoIndices[r] \in Seq(Nat)
    BY <1>1, ElementOfSeq
  <1>3. \A r \in 1..Len(debuginfoIndices) :
           \A k \in 1..Len(debuginfoIndices[r]) : debuginfoIndices[r][k] \in Nat
    BY <1>2, ElementOfSeq
  <1> QED BY <1>1, <1>2, <1>3, LenProperties, ElementOfSeq DEF Rows

(* What adding a function changes.                                         *)
LEMMA AddFunctionFacts ==
    ASSUME IInv, NEW l \in FunctionLoc, AddFunction(l)
    PROVE  /\ locOf' \in Seq(FunctionLoc) /\ ops' \in Seq(Seq(Loc)) /\ opIndex' \in Seq(Nat)
           /\ debuginfoIndices' \in Seq(Seq(Nat))
           /\ Len(locOf') = Len(locOf) + 1 /\ Len(ops') = Len(locOf')
           /\ Len(opIndex') = Len(locOf')
           /\ \A f \in 1..Len(locOf) :
                 locOf'[f] = locOf[f] /\ ops'[f] = ops[f] /\ opIndex'[f] = opIndex[f]
           /\ locOf'[Len(locOf')] = l /\ ops'[Len(locOf')] = <<>>
           /\ \A r \in 1..Rows : debuginfoIndices'[r] = debuginfoIndices[r]
           /\ \/ /\ l \in Reserved /\ opIndex'[Len(locOf')] = 0
                 /\ debuginfoIndices' = debuginfoIndices
              \/ /\ l \notin Reserved /\ opIndex'[Len(locOf')] = Rows + SIZE
                 /\ Len(debuginfoIndices') = Rows + 1
                 /\ debuginfoIndices'[Rows + 1] = <<DiIndex[l]>>
  <1>1. /\ locOf \in Seq(FunctionLoc) /\ ops \in Seq(Seq(Loc)) /\ opIndex \in Seq(Nat)
        /\ debuginfoIndices \in Seq(Seq(Nat))
    BY DEF IInv, TypeOK
  <1>2. <<>> \in Seq(Loc)
    BY EmptySeq
  <1>3. PICK d : d = DiIndex[l] /\ d \in Nat /\ <<d>> \in Seq(Nat)
    BY DiIndexAssumption DEF FunctionLoc
  <1>4. PICK L \in Nat : L = Len(locOf) /\ Len(ops) = L /\ Len(opIndex) = L
    BY StateFacts
  <1>5. /\ locOf' \in Seq(FunctionLoc) /\ Len(locOf') = L + 1 /\ locOf'[L + 1] = l
        /\ \A f \in 1..L : locOf'[f] = locOf[f]
    BY <1>1, <1>4, AppendProperties DEF AddFunction
  <1>6. /\ ops' \in Seq(Seq(Loc)) /\ Len(ops') = L + 1 /\ ops'[L + 1] = <<>>
        /\ \A f \in 1..L : ops'[f] = ops[f]
    BY <1>1, <1>2, <1>4, AppendProperties DEF AddFunction
  <1>7. CASE l \in Reserved
    <2>1. opIndex' = Append(opIndex, 0) /\ debuginfoIndices' = debuginfoIndices
      BY <1>7 DEF AddFunction
    <2>2. /\ opIndex' \in Seq(Nat) /\ Len(opIndex') = L + 1 /\ opIndex'[L + 1] = 0
          /\ \A f \in 1..L : opIndex'[f] = opIndex[f]
      BY <1>1, <1>4, <2>1, AppendProperties
    <2> QED BY <1>1, <1>4, <1>5, <1>6, <1>7, <2>1, <2>2
  <1>8. CASE l \notin Reserved
    <2>1. PICK x : x = Len(debuginfoIndices) + SIZE /\ x \in Nat
      BY <1>1, LenProperties DEF SIZE
    <2>2. /\ opIndex' \in Seq(Nat) /\ Len(opIndex') = L + 1 /\ opIndex'[L + 1] = x
          /\ \A f \in 1..L : opIndex'[f] = opIndex[f]
      <3>1. opIndex' = Append(opIndex, x)
        BY <1>8, <2>1 DEF AddFunction
      <3> QED BY <1>1, <1>4, <2>1, <3>1, AppendProperties
    <2>3. debuginfoIndices' = Append(debuginfoIndices, <<d>>)
      BY <1>3, <1>8 DEF AddFunction
    <2>4. /\ debuginfoIndices' \in Seq(Seq(Nat)) /\ Len(debuginfoIndices') = Rows + 1
          /\ debuginfoIndices'[Rows + 1] = <<d>>
          /\ \A r \in 1..Rows : debuginfoIndices'[r] = debuginfoIndices[r]
      BY <1>1, <1>3, <2>3, AppendProperties DEF Rows
    <2> QED BY <1>3, <1>4, <1>5, <1>6, <1>8, <2>1, <2>2, <2>4 DEF Rows
  <1> QED BY <1>7, <1>8

(* What writing an operation changes, if it can be written.                *)
LEMMA WriteOpFacts ==
    ASSUME IInv, NEW l \in Loc, WriteOp(l), l \notin Unsupported
    PROVE  /\ current \in 1..Len(locOf)
           /\ ops' \in Seq(Seq(Loc)) /\ Len(ops') = Len(ops)
           /\ \A f \in 1..Len(ops) : f # current => ops'[f] = ops[f]
           /\ Len(ops'[current]) = Len(ops[current]) + 1
           /\ \A k \in 1..Len(ops[current]) : ops'[current][k] = ops[current][k]
           /\ ops'[current][Len(ops[current]) + 1] = l
           /\ debuginfoIndices' \in Seq(Seq(Nat)) /\ Len(debuginfoIndices') = Rows
           /\ \/ ~HasRow(current) /\ debuginfoIndices' = debuginfoIndices
              \/ LET r == Row(current)  row == debuginfoIndices[r] IN
                 /\ HasRow(current)
                 /\ \A q \in 1..Rows : q # r => debuginfoIndices'[q] = debuginfoIndices[q]
                 /\ Len(debuginfoIndices'[r]) = Len(row) + 1
                 /\ \A k \in 1..Len(row) : debuginfoIndices'[r][k] = row[k]
                 /\ debuginfoIndices'[r][Len(row) + 1] = DiIndex[l]
  <1>1. ops \in Seq(Seq(Loc)) /\ debuginfoIndices \in Seq(Seq(Nat))
    BY DEF IInv, TypeOK
  <1>2. current \in 1..Len(locOf) /\ current \in 1..Len(ops)
    BY StateFacts DEF WriteOp, IInv, Shape
  <1>3. PICK o : o = Append(ops[current], l)
    OBVIOUS
  <1>4. ops[current] \in Seq(Loc)
    BY <1>2, StateFacts
  <1>5. /\ o \in Seq(Loc) /\ Len(o) = Len(ops[current]) + 1
        /\ \A k \in 1..Len(ops[current]) : o[k] = ops[current][k]
        /\ o[Len(ops[current]) + 1] = l
    BY <1>3, <1>4, AppendProperties
  <1>6. ops' = [ops EXCEPT ![current] = o]
    BY <1>3 DEF WriteOp
  <1>7. /\ ops' \in Seq(Seq(Loc)) /\ Len(ops') = Len(ops) /\ ops'[current] = o
        /\ \A f \in 1..Len(ops) : f # current => ops'[f] = ops[f]
    BY <1>1, <1>2, <1>5, <1>6, ExceptSeq
  <1>8. CASE ~HasRow(current)
    <2>1. debuginfoIndices' = debuginfoIndices
      BY <1>8 DEF WriteOp
    <2> QED BY <1>1, <1>2, <1>5, <1>7, <1>8, <2>1 DEF Rows
  <1>9. CASE HasRow(current)
    <2>1. PICK r : r = Row(current) /\ r \in 1..Len(debuginfoIndices)
      BY <1>2, <1>9 DEF IInv, RowEntries, Rows
    <2>2. PICK d : d = DiIndex[l] /\ d \in Nat
      BY DiIndexAssumption
    <2>3. PICK row : row = debuginfoIndices[r] /\ row \in Seq(Nat)
      BY <2>1, SectionFacts DEF Rows
    <2>4. PICK e : e = Append(row, d)
      OBVIOUS
    <2>5. /\ e \in Seq(Nat) /\ Len(e) = Len(row) + 1
          /\ \A k \in 1..Len(row) : e[k] = row[k]
          /\ e[Len(row) + 1] = d
      BY <2>2, <2>3, <2>4, AppendProperties
    <2>6. debuginfoIndices' = [debuginfoIndices EXCEPT ![r] = e]
      BY <1>9, <2>1, <2>2, <2>3, <2>4 DEF WriteOp
    <2>7. /\ debuginfoIndices' \in Seq(Seq(Nat))
          /\ Len(debuginfoIndices') = Len(debuginfoIndices) /\ debuginfoIndices'[r] = e
          /\ \A q \in 1..Len(debuginfoIndices) : q # r => debuginfoIndices'[q] = debuginfoIndices[q]
      BY <1>1, <2>1, <2>5, <2>6, ExceptSeq
    <2> QED BY <1>2, <1>5, <1>7, <1>9, <2>1, <2>2, <2>3, <2>5, <2>7 DEF Rows
  <1> QED BY <1>8, <1>9

-----------------------------------------------------------------------------
(* Every step keeps the types.  What a reader gives is a location.         *)
LEMMA AttributeFacts ==
    ASSUME NEW l \in Loc
    PROVE  Attribute(DiIndex[l]) = IF l \in Reserved THEN UnknownLoc ELSE l
  <1>1. CASE l \in Reserved
    BY <1>1, DiIndexAssumption DEF Attribute
  <1>2. CASE l \notin Reserved
    <2>1. DiIndex[l] # 0
      BY <1>2, DiIndexAssumption
    <2>2. \A k \in Loc : DiIndex[k] = DiIndex[l] => k = l
      BY <1>2, <2>1, DiIndexAssumption
    <2>3. (CHOOSE k \in Loc : DiIndex[k] = DiIndex[l]) = l
      BY <2>2
    <2> QED BY <1>2, <2>1, <2>3 DEF Attribute
  <1> QED BY <1>1, <1>2

(* The n-th entry of a function's row is that of its n-th item.            *)
LEMMA RowItem ==
    ASSUME IInv, NEW f \in 1..Len(locOf), HasRow(f), NEW n \in 1..(Len(ops[f]) + 1)
    PROVE  /\ Row(f) \in 1..Rows
           /\ n \in 1..Len(debuginfoIndices[Row(f)])
           /\ ItemLoc(f, n) \in Loc
           /\ debuginfoIndices[Row(f)][n] = DiIndex[ItemLoc(f, n)]
  <1>1. /\ Row(f) \in 1..Rows
        /\ Len(debuginfoIndices[Row(f)]) = Len(ops[f]) + 1
        /\ debuginfoIndices[Row(f)][1] = DiIndex[locOf[f]]
        /\ \A k \in 1..Len(ops[f]) : debuginfoIndices[Row(f)][k + 1] = DiIndex[ops[f][k]]
    BY DEF IInv, RowEntries
  <1>2. /\ locOf[f] \in Loc /\ Len(ops[f]) \in Nat
        /\ \A k \in 1..Len(ops[f]) : ops[f][k] \in Loc
    BY StateFacts
  <1>3. CASE n = 1
    BY <1>1, <1>2, <1>3 DEF ItemLoc
  <1>4. CASE n # 1
    <2>1. PICK k \in 1..Len(ops[f]) : n = k + 1
      BY <1>2, <1>4
    <2>2. ItemLoc(f, n) = ops[f][k] /\ n - 1 = k
      BY <1>4, <2>1 DEF ItemLoc
    <2> QED BY <1>1, <1>2, <2>1, <2>2
  <1> QED BY <1>3, <1>4

(* What the iterator of a function gives while it is in its row: the       *)
(* location of the item whose turn it is.                                  *)
LEMMA NextLocFacts ==
    ASSUME IInv, Written, NEW f \in 1..Len(locOf), NEW skip \in 0..Len(ops[f])
    PROVE  /\ NextLoc(f, skip) = IF locOf[f] \in Reserved \/ ItemLoc(f, skip + 1) \in Reserved
                                 THEN UnknownLoc ELSE ItemLoc(f, skip + 1)
           /\ NextLoc(f, skip) \in Loc
           /\ NextLoc(f, skip) # Null
  <1>1. UnknownLoc \in Loc /\ Null \notin Loc /\ UnknownLoc \in Reserved
    BY LocAssumption DEF Loc
  <1>2. CASE ~HasRow(f)
    <2>1. locOf[f] \in Reserved
      BY <1>2 DEF IInv, RowsByLocation
    <2> QED BY <1>1, <1>2, <2>1 DEF NextLoc
  <1>3. CASE HasRow(f)
    <2>0. Len(ops[f]) \in Nat /\ skip + 1 \in 1..(Len(ops[f]) + 1) /\ skip \in Nat
      BY StateFacts
    <2>1. locOf[f] \notin Reserved
      BY <1>3 DEF IInv, RowsByLocation
    <2>2. PICK r : r = Row(f) /\ r \in 1..Rows
      BY <1>3, <2>0, RowItem
    <2>3. PICK n : n = skip + 1 /\ n \in 1..(Len(ops[f]) + 1)
      BY <2>0
    <2>4. /\ n \in 1..Len(debuginfoIndices[r])
          /\ ItemLoc(f, n) \in Loc
          /\ debuginfoIndices[r][n] = DiIndex[ItemLoc(f, n)]
      BY <1>3, <2>2, <2>3, RowItem
    <2>5. rows = Rows /\ Len(offsets) = Rows
      BY DEF IInv, IndicesHoldRows, OffsetsAreSums
    <2>6. /\ offsets[r] + n <= Len(indices)
          /\ indices[offsets[r] + n] = debuginfoIndices[r][n]
      BY <2>2, <2>4, <2>5 DEF IInv, IndicesHoldRows
    <2>7. offsets[r] \in Nat /\ Len(indices) \in Nat /\ Rows \in Nat
      BY <2>2, <2>5, SectionFacts
    <2>8. /\ ~(r > Len(offsets)) /\ ~(offsets[r] + skip >= Len(indices))
          /\ offsets[r] + skip + 1 = offsets[r] + n
      BY <2>0, <2>2, <2>3, <2>5, <2>6, <2>7
    <2>9. NextLoc(f, skip) = Attribute(indices[offsets[r] + n])
      BY <1>3, <2>2, <2>8 DEF NextLoc
    <2>10. NextLoc(f, skip) = IF ItemLoc(f, n) \in Reserved THEN UnknownLoc ELSE ItemLoc(f, n)
      BY <2>4, <2>6, <2>9, AttributeFacts
    <2> QED BY <1>1, <2>1, <2>3, <2>4, <2>10
  <1> QED BY <1>2, <1>3

-----------------------------------------------------------------------------
LEMMA InitIInv == Init => IInv
  <1> SUFFICES ASSUME Init PROVE IInv
    OBVIOUS
  <1>0. Len(locOf) = 0 /\ Len(debuginfoIndices) = 0 /\ Len(ops) = 0 /\ Len(opIndex) = 0
        /\ Len(offsets) = 0 /\ Len(indices) = 0 /\ Len(located) = 0
    BY EmptySeq DEF Init
  <1>1. TypeOK
    BY EmptySeq, BoundsAssumption DEF Init, TypeOK, Phase
  <1>2. Shape /\ RowsByLocation /\ ScopesVerified /\ RowEntries
    BY <1>0 DEF Init, Shape, RowsByLocation, ScopesVerified, RowEntries
  <1>3. OffsetsAreSums
    BY <1>0 DEF Init, OffsetsAreSums, Rows, Written
  <1>4. IndicesHoldRows
    BY <1>0 DEF Init, IndicesHoldRows, Rows, Written
  <1>5. ReaderInFunction /\ LocationsGiven /\ NeverRefused
    BY <1>0 DEF Init, ReaderInFunction, LocationsGiven, NeverRefused, Written
  <1> QED BY <1>1, <1>2, <1>3, <1>4, <1>5 DEF IInv

(* A new function gets a row behind all others, or none.                   *)
LEMMA AddFunctionKeeps ==
    ASSUME IInv, NEW l \in FunctionLoc, AddFunction(l)
    PROVE  IInv'
  <1> USE DEF ir, writer, section, reader
  <1>0. phase = "functions" /\ UNCHANGED <<phase, left, section, current, reader>>
    BY DEF AddFunction
  <1>1. TypeOK'
    BY <1>0, AddFunctionFacts DEF IInv, TypeOK
  <1>2. Shape'
    BY <1>0, AddFunctionFacts, StateFacts DEF Shape
  <1>3. PICK L \in Nat : L = Len(locOf) /\ Len(locOf') = L + 1
    BY AddFunctionFacts, StateFacts
  <1>4. /\ \A f \in 1..L : locOf'[f] = locOf[f] /\ ops'[f] = ops[f] /\ opIndex'[f] = opIndex[f]
        /\ locOf'[L + 1] = l /\ ops'[L + 1] = <<>> /\ Len(ops'[L + 1]) = 0
        /\ \A r \in 1..Rows : debuginfoIndices'[r] = debuginfoIndices[r]
    BY <1>3, AddFunctionFacts, EmptySeq
  <1>5. \A f \in 1..L : (HasRow(f)' <=> HasRow(f)) /\ Row(f)' = Row(f)
    BY <1>4 DEF HasRow, Row
  <1>a. PICK R \in Nat : R = Rows /\ R = Len(debuginfoIndices)
    BY SectionFacts DEF Rows
  <1>b. \/ l \in Reserved /\ opIndex'[L + 1] = 0 /\ Len(debuginfoIndices') = R
        \/ /\ l \notin Reserved /\ opIndex'[L + 1] = R + SIZE
           /\ Len(debuginfoIndices') = R + 1 /\ debuginfoIndices'[R + 1] = <<DiIndex[l]>>
    BY <1>3, <1>a, AddFunctionFacts
  <1>c. Rows' = Len(debuginfoIndices')
    BY DEF Rows
  <1>6. Rows \in Nat /\ Rows' \in Nat /\ Rows <= Rows'
    BY <1>a, <1>b, <1>c
  <1>7. /\ HasRow(L + 1)' <=> l \notin Reserved
        /\ l \notin Reserved =>
              /\ Row(L + 1)' = Rows + 1 /\ Rows' = Rows + 1
              /\ Len(debuginfoIndices'[Rows + 1]) = 1
              /\ debuginfoIndices'[Rows + 1][1] = DiIndex[l]
    <2>1. Len(<<DiIndex[l]>>) = 1 /\ <<DiIndex[l]>>[1] = DiIndex[l]
      OBVIOUS
    <2>2. (HasRow(L + 1)' <=> opIndex'[L + 1] >= 1) /\ Row(L + 1)' = opIndex'[L + 1]
      <3>1. Row(L + 1)' = opIndex'[L + 1] - 1 + 1
        BY DEF Row, SIZE
      <3>2. opIndex'[L + 1] \in Nat
        BY <1>a, <1>b DEF SIZE
      <3> QED BY <3>1, <3>2 DEF HasRow, SIZE
    <2>3. CASE l \in Reserved
      BY <1>b, <2>2, <2>3
    <2>4. CASE l \notin Reserved
      <3>1. /\ opIndex'[L + 1] = R + 1 /\ Len(debuginfoIndices') = R + 1
            /\ debuginfoIndices'[R + 1] = <<DiIndex[l]>>
        BY <1>b, <2>4 DEF SIZE
      <3>2. R + 1 >= 1
        BY <1>a
      <3> QED BY <1>a, <1>c, <2>1, <2>2, <2>4, <3>1, <3>2
    <2> QED BY <2>3, <2>4
  <1>8. RowsByLocation'
    <2>1. \A f \in 1..(L + 1) : f \in 1..L \/ f = L + 1
      BY <1>3
    <2> QED BY <1>3, <1>4, <1>5, <1>7, <2>1 DEF IInv, RowsByLocation
  <1>9. RowEntries'
    <2>1. \A f \in 1..L : HasRow(f) => Row(f) \in 1..Rows
      BY <1>3 DEF IInv, RowEntries
    <2>2. ASSUME NEW f \in 1..(L + 1), NEW g \in 1..(L + 1), f < g, HasRow(f)', HasRow(g)'
          PROVE  Row(f)' < Row(g)'
      <3>1. f \in 1..L
        BY <1>3, <2>2
      <3>2. CASE g \in 1..L
        BY <1>3, <1>5, <2>2, <3>1, <3>2 DEF IInv, RowEntries
      <3>3. CASE g = L + 1
        BY <1>5, <1>6, <1>7, <2>1, <2>2, <3>1, <3>3
      <3> QED BY <1>3, <3>2, <3>3
    <2>3. ASSUME NEW f \in 1..(L + 1), HasRow(f)'
          PROVE  /\ Row(f)' \in 1..Rows'
                 /\ Len(debuginfoIndices'[Row(f)']) = Len(ops'[f]) + 1
                 /\ debuginfoIndices'[Row(f)'][1] = DiIndex[locOf'[f]]
                 /\ \A k \in 1..Len(ops'[f]) :
                       debuginfoIndices'[Row(f)'][k + 1] = DiIndex[ops'[f][k]]
      <3>1. CASE f \in 1..L
        <4>1. PICK r : r = Row(f) /\ r \in 1..Rows
          BY <1>5, <2>1, <2>3, <3>1
        <4>2. Row(f)' = r /\ debuginfoIndices'[r] = debuginfoIndices[r]
          BY <1>4, <1>5, <3>1, <4>1
        <4>3. /\ Len(debuginfoIndices[r]) = Len(ops[f]) + 1
              /\ debuginfoIndices[r][1] = DiIndex[locOf[f]]
              /\ \A k \in 1..Len(ops[f]) : debuginfoIndices[r][k + 1] = DiIndex[ops[f][k]]
          BY <1>3, <1>5, <2>3, <3>1, <4>1 DEF IInv, RowEntries
        <4> QED BY <1>4, <1>6, <3>1, <4>1, <4>2, <4>3
      <3>2. CASE f = L + 1
        <4>1. /\ Row(f)' = Rows + 1 /\ Rows' = Rows + 1
              /\ Len(debuginfoIndices'[Rows + 1]) = 1
              /\ debuginfoIndices'[Rows + 1][1] = DiIndex[l]
          BY <1>7, <2>3, <3>2
        <4>2. Len(ops'[f]) = 0 /\ locOf'[f] = l
          BY <1>4, <3>2
        <4>3. Rows + 1 \in 1..Rows' /\ 1..Len(ops'[f]) = {}
          BY <1>6, <4>1, <4>2
        <4> QED BY <4>1, <4>2, <4>3
      <3> QED BY <1>3, <3>1, <3>2
    <2> QED BY <1>3, <2>2, <2>3 DEF RowEntries
  <1>10. ScopesVerified'
    <2>1. ASSUME NEW f \in 1..(L + 1), NEW k \in 1..Len(ops'[f])
          PROVE  ops'[f][k] \in Scoped => locOf'[f] \in Scoped \cup Unsupported
      <3>1. CASE f \in 1..L
        <4>1. ops'[f] = ops[f] /\ locOf'[f] = locOf[f] /\ k \in 1..Len(ops[f])
          BY <1>4, <2>1, <3>1
        <4>2. MayLocate(f, ops[f][k])
          BY <1>3, <3>1, <4>1 DEF IInv, ScopesVerified
        <4> QED BY <4>1, <4>2 DEF MayLocate
      <3>2. CASE f = L + 1
        BY <1>4, <2>1, <3>2
      <3> QED BY <1>3, <3>1, <3>2
    <2>2. \A f \in 1..Len(locOf') : \A k \in 1..Len(ops'[f]) :
             ops'[f][k] \in Scoped => locOf'[f] \in Scoped \cup Unsupported
      BY <1>3, <2>1
    <2> QED BY <2>2 DEF ScopesVerified, MayLocate
  <1>11. OffsetsAreSums'
    BY <1>0, <1>6 DEF IInv, OffsetsAreSums, Written
  <1>12. IndicesHoldRows'
    BY <1>0, <1>6 DEF IInv, IndicesHoldRows, Written
  <1>13. ReaderInFunction' /\ LocationsGiven' /\ NeverRefused'
    BY <1>0, EmptySeq DEF IInv, ReaderInFunction, LocationsGiven, NeverRefused, Written
  <1> QED BY <1>1, <1>2, <1>8, <1>9, <1>10, <1>11, <1>12, <1>13 DEF IInv

(* An operation adds its location to its function and to the row.          *)
LEMMA WriteOpKeeps ==
    ASSUME IInv, NEW l \in Loc, WriteOp(l)
    PROVE  IInv'
  <1> USE DEF ir, writer, section, reader
  <1>0. /\ phase = "bodies" /\ left' = left - 1 /\ left > 0
        /\ UNCHANGED <<locOf, opIndex, section, current, reader>>
    BY DEF WriteOp
  <1>0a. Len(offsets) = 0 /\ rows = 0 /\ located = <<>> /\ Len(located) = 0
    BY <1>0, EmptySeq DEF IInv, OffsetsAreSums, IndicesHoldRows, ReaderInFunction, Written
  <1>1. CASE l \in Unsupported
    <2>1. phase' = "failed" /\ UNCHANGED <<ops, debuginfoIndices>>
      BY <1>1 DEF WriteOp
    <2>2. TypeOK'
      BY <1>0, <2>1 DEF IInv, TypeOK, Phase
    <2>3. Shape' /\ RowsByLocation' /\ ScopesVerified' /\ RowEntries'
      BY <1>0, <2>1 DEF IInv, Shape, RowsByLocation, ScopesVerified, RowEntries, HasRow, Row,
                        Rows, MayLocate
    <2>4. OffsetsAreSums'
      BY <1>0, <2>1 DEF IInv, OffsetsAreSums, Rows, Written
    <2>5. IndicesHoldRows'
      BY <1>0, <2>1 DEF IInv, IndicesHoldRows, Rows, Written
    <2>6. ReaderInFunction' /\ LocationsGiven' /\ NeverRefused'
      BY <1>0, <1>0a, <2>1 DEF IInv, ReaderInFunction, LocationsGiven, NeverRefused, Written
    <2> QED BY <2>2, <2>3, <2>4, <2>5, <2>6 DEF IInv
  <1>2. CASE l \notin Unsupported
    <2>1. phase' = phase
      BY <1>2 DEF WriteOp
    <2>2. TypeOK'
      BY <1>0, <1>2, <2>1, WriteOpFacts DEF IInv, TypeOK
    <2>3. Shape' /\ RowsByLocation'
      BY <1>0, <1>2, <2>1, WriteOpFacts DEF IInv, Shape, RowsByLocation, HasRow
    <2>4. PICK c \in 1..Len(locOf) : c = current /\ Len(ops) = Len(locOf)
      BY <1>2, WriteOpFacts, StateFacts
    <2>5. PICK n \in Nat : n = Len(ops[c])
      BY StateFacts
    <2>6. /\ \A f \in 1..Len(locOf) : f # c => ops'[f] = ops[f]
          /\ Len(ops'[c]) = n + 1 /\ ops'[c][n + 1] = l
          /\ \A k \in 1..n : ops'[c][k] = ops[c][k]
      BY <1>2, <2>4, <2>5, WriteOpFacts
    <2>7. Rows' = Rows /\ \A f : (HasRow(f)' <=> HasRow(f)) /\ Row(f)' = Row(f)
      BY <1>0, <1>2, WriteOpFacts DEF HasRow, Row, Rows
    <2>8. ScopesVerified'
      <3>1. \A f, m : MayLocate(f, m)' <=> MayLocate(f, m)
        BY <1>0 DEF MayLocate
      <3>2. MayLocate(c, l)
        BY <2>4 DEF WriteOp
      <3>3. \A k \in 1..(n + 1) : k \in 1..n \/ k = n + 1
        OBVIOUS
      <3> QED BY <1>0, <2>5, <2>6, <3>1, <3>2, <3>3 DEF IInv, ScopesVerified
    <2>9. RowEntries'
      <3>1. \A f, g \in 1..Len(locOf) : f < g /\ HasRow(f)' /\ HasRow(g)' => Row(f)' < Row(g)'
        BY <2>7 DEF IInv, RowEntries
      <3>2. \A f, g \in 1..Len(locOf) :
               f # g /\ HasRow(f) /\ HasRow(g) => Row(f) # Row(g)
        <4>1. \A f \in 1..Len(locOf) : HasRow(f) => Row(f) \in 1..Rows
          BY DEF IInv, RowEntries
        <4>2. \A f, g \in 1..Len(locOf) : f # g => f < g \/ g < f
          BY StateFacts
        <4>3. \A f, g \in 1..Len(locOf) : f < g /\ HasRow(f) /\ HasRow(g) => Row(f) < Row(g)
          BY DEF IInv, RowEntries
        <4>4. \A f \in 1..Len(locOf) : HasRow(f) => Row(f) \in Nat
          BY <4>1, SectionFacts
        <4> QED BY <4>2, <4>3, <4>4
      <3>3. ASSUME NEW f \in 1..Len(locOf), HasRow(f)
            PROVE  /\ Row(f) \in 1..Rows
                   /\ Len(debuginfoIndices'[Row(f)]) = Len(ops'[f]) + 1
                   /\ debuginfoIndices'[Row(f)][1] = DiIndex[locOf[f]]
                   /\ \A k \in 1..Len(ops'[f]) :
                         debuginfoIndices'[Row(f)][k + 1] = DiIndex[ops'[f][k]]
        <4>1. PICK r : r = Row(f) /\ r \in 1..Rows
          BY <3>3 DEF IInv, RowEntries
        <4>2. /\ Len(debuginfoIndices[r]) = Len(ops[f]) + 1
              /\ debuginfoIndices[r][1] = DiIndex[locOf[f]]
              /\ \A k \in 1..Len(ops[f]) : debuginfoIndices[r][k + 1] = DiIndex[ops[f][k]]
          BY <3>3, <4>1 DEF IInv, RowEntries
        <4>3. CASE f # c
          <5>1. debuginfoIndices'[r] = debuginfoIndices[r]
            BY <1>2, <2>4, <3>2, <3>3, <4>1, <4>3, WriteOpFacts
          <5> QED BY <2>6, <4>1, <4>2, <4>3, <5>1
        <4>4. CASE f = c
          <5>1. /\ Len(debuginfoIndices'[r]) = n + 2
                /\ \A k \in 1..(n + 1) : debuginfoIndices'[r][k] = debuginfoIndices[r][k]
                /\ debuginfoIndices'[r][n + 2] = DiIndex[l]
            <6>1. PICK row : row = debuginfoIndices[r] /\ Len(row) = n + 1
              BY <2>5, <4>2, <4>4
            <6>2. /\ Len(debuginfoIndices'[r]) = Len(row) + 1
                  /\ \A k \in 1..Len(row) : debuginfoIndices'[r][k] = row[k]
                  /\ debuginfoIndices'[r][Len(row) + 1] = DiIndex[l]
              BY <1>2, <2>4, <3>3, <4>1, <4>4, <6>1, WriteOpFacts
            <6>3. n + 1 + 1 = n + 2
              BY <2>5
            <6> QED BY <6>1, <6>2, <6>3
          <5>2. ASSUME NEW k \in 1..(n + 1)
                PROVE  debuginfoIndices'[r][k + 1] = DiIndex[ops'[c][k]]
            <6>1. CASE k \in 1..n
              <7>1. debuginfoIndices'[r][k + 1] = debuginfoIndices[r][k + 1]
                BY <2>5, <5>1, <6>1
              <7>2. ops'[c][k] = ops[c][k] /\ debuginfoIndices[r][k + 1] = DiIndex[ops[c][k]]
                BY <2>5, <2>6, <4>2, <4>4, <6>1
              <7> QED BY <7>1, <7>2
            <6>2. CASE k = n + 1
              BY <2>6, <5>1, <6>2
            <6> QED BY <6>1, <6>2
          <5>3. Len(ops'[f]) = n + 1 /\ ops'[f] = ops'[c]
            BY <2>5, <2>6, <4>4
          <5>4. n + 1 + 1 = n + 2 /\ 1 \in 1..(n + 1)
            BY <2>5
          <5>5. Len(debuginfoIndices'[Row(f)]) = Len(ops'[f]) + 1
            BY <4>1, <5>1, <5>3, <5>4
          <5>6. debuginfoIndices'[Row(f)][1] = DiIndex[locOf[f]]
            BY <4>1, <4>2, <5>1, <5>4
          <5>7. \A k \in 1..Len(ops'[f]) : debuginfoIndices'[Row(f)][k + 1] = DiIndex[ops'[f][k]]
            BY <4>1, <5>2, <5>3
          <5> QED BY <4>1, <5>5, <5>6, <5>7
        <4> QED BY <4>3, <4>4
      <3> QED BY <1>0, <2>7, <3>1, <3>3 DEF RowEntries
    <2>10. OffsetsAreSums'
      BY <1>0, <1>0a, <2>1, <2>7 DEF IInv, OffsetsAreSums, Written
    <2>11. IndicesHoldRows'
      BY <1>0, <1>0a, <2>1, <2>7 DEF IInv, IndicesHoldRows, Written
    <2>12. ReaderInFunction' /\ LocationsGiven' /\ NeverRefused'
      BY <1>0, <1>0a, <2>1 DEF IInv, ReaderInFunction, LocationsGiven, NeverRefused, Written
    <2> QED BY <2>2, <2>3, <2>8, <2>9, <2>10, <2>11, <2>12 DEF IInv
  <1> QED BY <1>1, <1>2

-----------------------------------------------------------------------------
(* The steps between bodies and sections change little.                    *)
LEMMA StartBodyKeeps ==
    ASSUME IInv, StartBody
    PROVE  IInv'
  <1> USE DEF ir, writer, section, reader
  <1>0. /\ phase \in {"functions", "bodies"} /\ phase' = "bodies"
        /\ current < Len(locOf) /\ current' = current + 1
        /\ UNCHANGED <<ir, writer, section, reader>>
    BY DEF StartBody
  <1>1. TypeOK' /\ Shape'
    BY <1>0, StateFacts DEF IInv, TypeOK, Shape, Phase
  <1>2. RowsByLocation' /\ ScopesVerified' /\ RowEntries'
    BY <1>0 DEF IInv, RowsByLocation, ScopesVerified, RowEntries, HasRow, Row, Rows, MayLocate
  <1>3. OffsetsAreSums' /\ IndicesHoldRows'
    BY <1>0 DEF IInv, OffsetsAreSums, IndicesHoldRows, Rows, Written
  <1>4. ReaderInFunction' /\ LocationsGiven' /\ NeverRefused'
    BY <1>0, EmptySeq DEF IInv, ReaderInFunction, LocationsGiven, NeverRefused, Written
  <1> QED BY <1>1, <1>2, <1>3, <1>4 DEF IInv

LEMMA StartSectionKeeps ==
    ASSUME IInv, StartSection
    PROVE  IInv'
  <1> USE DEF ir, writer, section, reader
  <1>0. /\ phase \in {"functions", "bodies"} /\ phase' = "offsets"
        /\ UNCHANGED <<ir, writer, section, current, reader>>
    BY DEF StartSection
  <1>1. TypeOK' /\ Shape'
    BY <1>0 DEF IInv, TypeOK, Shape, Phase
  <1>2. RowsByLocation' /\ ScopesVerified' /\ RowEntries'
    BY <1>0 DEF IInv, RowsByLocation, ScopesVerified, RowEntries, HasRow, Row, Rows, MayLocate
  <1>3. OffsetsAreSums' /\ IndicesHoldRows'
    BY <1>0 DEF IInv, OffsetsAreSums, IndicesHoldRows, Rows, Written
  <1>4. ReaderInFunction' /\ LocationsGiven' /\ NeverRefused'
    BY <1>0, EmptySeq DEF IInv, ReaderInFunction, LocationsGiven, NeverRefused, Written
  <1> QED BY <1>1, <1>2, <1>3, <1>4 DEF IInv

LEMMA StartIndicesKeeps ==
    ASSUME IInv, StartIndices
    PROVE  IInv'
  <1> USE DEF ir, writer, section, reader
  <1>0. /\ phase = "offsets" /\ phase' = "indices" /\ Len(offsets) = Rows
        /\ UNCHANGED <<ir, writer, section, current, reader>>
    BY DEF StartIndices, Rows
  <1>1. TypeOK' /\ Shape'
    BY <1>0 DEF IInv, TypeOK, Shape, Phase
  <1>2. RowsByLocation' /\ ScopesVerified' /\ RowEntries'
    BY <1>0 DEF IInv, RowsByLocation, ScopesVerified, RowEntries, HasRow, Row, Rows, MayLocate
  <1>3. OffsetsAreSums' /\ IndicesHoldRows'
    BY <1>0 DEF IInv, OffsetsAreSums, IndicesHoldRows, Rows, Written
  <1>4. ReaderInFunction' /\ LocationsGiven' /\ NeverRefused'
    BY <1>0, EmptySeq DEF IInv, ReaderInFunction, LocationsGiven, NeverRefused, Written
  <1> QED BY <1>1, <1>2, <1>3, <1>4 DEF IInv

(* The section is complete when the reader starts.                         *)
LEMMA WriteAttributesKeeps ==
    ASSUME IInv, WriteAttributes
    PROVE  IInv'
  <1> USE DEF ir, writer, section, reader
  <1>0. /\ phase = "indices" /\ phase' \in {"failed", "read"} /\ rows = Rows /\ current' = 0
        /\ UNCHANGED <<ir, writer, section, reader>>
    BY DEF WriteAttributes, Rows
  <1>1. located = <<>> /\ Len(located) = 0
    BY <1>0, EmptySeq DEF IInv, ReaderInFunction, Written
  <1>2. TypeOK' /\ Shape'
    BY <1>0, StateFacts DEF IInv, TypeOK, Shape, Phase
  <1>3. RowsByLocation' /\ ScopesVerified' /\ RowEntries'
    BY <1>0 DEF IInv, RowsByLocation, ScopesVerified, RowEntries, HasRow, Row, Rows, MayLocate
  <1>4. OffsetsAreSums' /\ IndicesHoldRows'
    BY <1>0 DEF IInv, OffsetsAreSums, IndicesHoldRows, Rows, Written
  <1>5. ReaderInFunction' /\ LocationsGiven' /\ NeverRefused'
    BY <1>0, <1>1 DEF IInv, ReaderInFunction, LocationsGiven, NeverRefused, Written
  <1> QED BY <1>2, <1>3, <1>4, <1>5 DEF IInv

(* The offset of the next row is the sum of the lengths of those before.   *)
LEMMA WriteOffsetKeeps ==
    ASSUME IInv, WriteOffset
    PROVE  IInv'
  <1> USE DEF ir, writer, section, reader
  <1>0. /\ phase = "offsets" /\ Len(offsets) < Rows
        /\ offsets' = Append(offsets, running)
        /\ running' = running + Len(debuginfoIndices[Len(offsets) + 1])
        /\ UNCHANGED <<phase, ir, writer, indices, rows, current, reader>>
    BY DEF WriteOffset, Rows
  <1>1. PICK n \in Nat : n = Len(offsets) /\ n + 1 \in 1..Rows
    BY <1>0, SectionFacts
  <1>2. offsets \in Seq(Nat) /\ running \in Nat /\ Len(debuginfoIndices[n + 1]) \in Nat
    BY <1>1, SectionFacts DEF IInv, TypeOK
  <1>3. /\ offsets' \in Seq(Nat) /\ Len(offsets') = n + 1 /\ offsets'[n + 1] = running
        /\ \A r \in 1..n : offsets'[r] = offsets[r]
    BY <1>0, <1>1, <1>2, AppendProperties
  <1>4. running' = running + Len(debuginfoIndices[n + 1]) /\ running' \in Nat
    BY <1>0, <1>1, <1>2
  <1>5. TypeOK' /\ Shape'
    BY <1>0, <1>3, <1>4 DEF IInv, TypeOK, Shape
  <1>6. RowsByLocation' /\ ScopesVerified' /\ RowEntries'
    BY <1>0 DEF IInv, RowsByLocation, ScopesVerified, RowEntries, HasRow, Row, Rows, MayLocate
  <1>7. OffsetsAreSums'
    <2>1. n = 0 => running = 0
      BY <1>1 DEF IInv, OffsetsAreSums
    <2>2. n > 0 => offsets[1] = 0 /\ running = offsets[n] + Len(debuginfoIndices[n])
      BY <1>1 DEF IInv, OffsetsAreSums
    <2>3. \A r \in 1..n : r < n => offsets[r + 1] = offsets[r] + Len(debuginfoIndices[r])
      BY <1>1 DEF IInv, OffsetsAreSums
    <2>4. offsets'[1] = 0
      BY <1>1, <1>3, <2>1, <2>2
    <2>5. ASSUME NEW r \in 1..(n + 1), r < n + 1
          PROVE  offsets'[r + 1] = offsets'[r] + Len(debuginfoIndices[r])
      <3>1. CASE r < n
        BY <1>1, <1>3, <2>3, <2>5, <3>1, SMTT(20)
      <3>2. CASE r = n
        BY <1>1, <1>3, <2>2, <2>5, <3>2
      <3> QED BY <1>1, <2>5, <3>1, <3>2
    <2>6. Rows' = Rows /\ debuginfoIndices' = debuginfoIndices /\ phase' = "offsets"
      BY <1>0 DEF Rows
    <2>7. running' = offsets'[n + 1] + Len(debuginfoIndices[n + 1])
      BY <1>3, <1>4
    <2> QED BY <1>0, <1>1, <1>3, <2>4, <2>5, <2>6, <2>7 DEF OffsetsAreSums, Written
  <1>8. IndicesHoldRows'
    BY <1>0 DEF IInv, IndicesHoldRows, Rows, Written
  <1>9. ReaderInFunction' /\ LocationsGiven' /\ NeverRefused'
    BY <1>0, EmptySeq DEF IInv, ReaderInFunction, LocationsGiven, NeverRefused, Written
  <1> QED BY <1>5, <1>6, <1>7, <1>8, <1>9 DEF IInv

(* A row is put where its offset says.                                     *)
LEMMA WriteRowKeeps ==
    ASSUME IInv, WriteRow
    PROVE  IInv'
  <1> USE DEF ir, writer, section, reader
  <1>0. /\ phase = "indices" /\ rows < Rows /\ rows' = rows + 1
        /\ indices' = indices \o debuginfoIndices[rows + 1]
        /\ UNCHANGED <<phase, ir, writer, offsets, running, current, reader>>
    BY DEF WriteRow, Rows
  <1>1. PICK q \in Nat : q = rows /\ q + 1 \in 1..Rows
    BY <1>0, SectionFacts
  <1>2. PICK row : row = debuginfoIndices[q + 1] /\ row \in Seq(Nat) /\ Len(row) \in Nat
    BY <1>1, SectionFacts
  <1>3. PICK n \in Nat : n = Len(indices)
    BY SectionFacts
  <1>4. /\ indices' \in Seq(Nat) /\ Len(indices') = n + Len(row)
        /\ \A k \in 1..(n + Len(row)) :
              indices'[k] = IF k <= n THEN indices[k] ELSE row[k - n]
    BY <1>0, <1>1, <1>2, <1>3, ConcatProperties DEF IInv, TypeOK
  <1>5. TypeOK' /\ Shape'
    BY <1>0, <1>1, <1>4 DEF IInv, TypeOK, Shape
  <1>6. RowsByLocation' /\ ScopesVerified' /\ RowEntries' /\ OffsetsAreSums'
    BY <1>0 DEF IInv, RowsByLocation, ScopesVerified, RowEntries, OffsetsAreSums, HasRow, Row,
                Rows, MayLocate, Written
  <1>7. IndicesHoldRows'
    <2>1. /\ Len(offsets) = Rows /\ Rows \in Nat
          /\ offsets[q + 1] \in Nat /\ running \in Nat
      BY <1>0, <1>1, SectionFacts DEF IInv, OffsetsAreSums
    <2>2. n = offsets[q + 1]
      <3>1. n = IF q > 0 THEN offsets[q + 1] ELSE 0
        BY <1>0, <1>1, <1>3 DEF IInv, IndicesHoldRows
      <3>2. offsets[1] = 0
        BY <1>1, <2>1 DEF IInv, OffsetsAreSums
      <3> QED BY <1>1, <3>1, <3>2
    <2>3. IF q + 1 < Rows THEN offsets[q + 2] = offsets[q + 1] + Len(row)
                          ELSE running = offsets[q + 1] + Len(row)
      <3>1. CASE q + 1 < Rows
        <4>1. q + 1 + 1 = q + 2
          BY <1>1
        <4> QED BY <1>1, <1>2, <2>1, <3>1, <4>1 DEF IInv, OffsetsAreSums
      <3>2. CASE q + 1 = Rows
        BY <1>1, <1>2, <2>1, <3>2 DEF IInv, OffsetsAreSums
      <3> QED BY <1>1, <2>1, <3>1, <3>2
    <2>4. Rows' = Rows /\ rows' = q + 1 /\ debuginfoIndices' = debuginfoIndices
          /\ offsets' = offsets /\ running' = running /\ phase' = "indices"
      BY <1>0, <1>1 DEF Rows
    <2>5. Len(indices') = IF q + 1 < Rows THEN offsets[q + 1 + 1] ELSE running
      <3>1. q + 1 + 1 = q + 2
        BY <1>1
      <3> QED BY <1>4, <2>2, <2>3, <3>1
    <2>6. ASSUME NEW r \in 1..(q + 1), NEW k \in 1..Len(debuginfoIndices[r])
          PROVE  /\ offsets[r] + k <= Len(indices')
                 /\ indices'[offsets[r] + k] = debuginfoIndices[r][k]
      <3>1. CASE r \in 1..q
        <4>1. /\ offsets[r] + k <= n
              /\ indices[offsets[r] + k] = debuginfoIndices[r][k]
          BY <1>1, <1>3, <2>6, <3>1 DEF IInv, IndicesHoldRows
        <4>2. r \in 1..Len(offsets) /\ offsets[r] \in Nat
          BY <1>1, <2>1, <3>1, SectionFacts
        <4>3. PICK p : p = offsets[r] + k /\ p \in 1..(n + Len(row)) /\ p <= n
          BY <1>2, <1>3, <2>6, <4>1, <4>2, SMTT(20)
        <4> QED BY <1>2, <1>3, <1>4, <4>1, <4>3, SMTT(20)
      <3>2. CASE r = q + 1
        <4>1. k \in 1..Len(row)
          BY <1>2, <2>6, <3>2
        <4>2. PICK m \in Nat : m = Len(row) /\ k \in 1..m
          BY <1>2, <4>1
        <4>3. n + k \in 1..(n + m) /\ ~(n + k <= n) /\ n + k - n = k /\ n + k <= n + m
          BY <4>2
        <4>4. PICK p : p = n + k
          OBVIOUS
        <4>5. indices'[p] = row[k] /\ p <= Len(indices')
          BY <1>4, <4>2, <4>3, <4>4
        <4> QED BY <1>2, <2>2, <3>2, <4>4, <4>5
      <3> QED BY <1>1, <3>1, <3>2
    <2>7. q + 1 <= Rows /\ ~(q + 1 = 0) /\ q + 1 > 0
      BY <1>1, <2>1
    <2>8. ~Written'
      BY <2>4 DEF Written
    <2> QED BY <2>4, <2>5, <2>6, <2>7, <2>8 DEF IndicesHoldRows
  <1>8. ReaderInFunction' /\ LocationsGiven' /\ NeverRefused'
    BY <1>0, EmptySeq DEF IInv, ReaderInFunction, LocationsGiven, NeverRefused, Written
  <1> QED BY <1>5, <1>6, <1>7, <1>8 DEF IInv

-----------------------------------------------------------------------------
(* What one step of the reader adds to what was read before: item n of     *)
(* function f, which becomes the current one.                              *)
ReadItem(f, n) ==
    /\ phase = "read" /\ phase' = "read"
    /\ f \in 1..Len(locOf) /\ n \in 1..(Len(ops[f]) + 1)
    /\ current' = f /\ consumed' = n
    /\ UNCHANGED <<ir, writer, section>>
    /\ located' \in Seq(Seq(Loc)) /\ Len(located') = f
    /\ Len(located) = IF n = 1 THEN f - 1 ELSE f
    /\ \A g \in 1..Len(located) : g # f => located'[g] = located[g]
    /\ Len(located'[f]) = n
    /\ n > 1 => Len(located[f]) = n - 1 /\ \A k \in 1..(n - 1) : located'[f][k] = located[f][k]
    /\ n = 1 => \A g \in 1..(f - 1) : Len(located[g]) = Len(ops[g]) + 1
    /\ located'[f][n] = IF locOf[f] \in Reserved \/ ItemLoc(f, n) \in Reserved
                        THEN UnknownLoc ELSE ItemLoc(f, n)

(* All functions up to the current one are read when the next is created.  *)
LEMMA CreateFunctionReads ==
    ASSUME IInv, CreateFunction
    PROVE  ReadItem(current + 1, 1)
  <1> USE DEF ir, writer, section, reader
  <1>1. PICK c \in Nat : c = current /\ c + 1 \in 1..Len(locOf)
    BY StateFacts DEF CreateFunction
  <1>2. phase = "read" /\ Written /\ FunctionRead
    BY DEF CreateFunction, Written
  <1>3. Len(ops[c + 1]) \in Nat /\ 0 \in 0..Len(ops[c + 1]) /\ 1 \in 1..(Len(ops[c + 1]) + 1)
    BY <1>1, StateFacts
  <1>4. PICK loc : loc = NextLoc(c + 1, 0)
    OBVIOUS
  <1>5. /\ loc = IF locOf[c + 1] \in Reserved \/ ItemLoc(c + 1, 0 + 1) \in Reserved
                 THEN UnknownLoc ELSE ItemLoc(c + 1, 0 + 1)
        /\ loc \in Loc /\ loc # Null
    BY <1>1, <1>2, <1>3, <1>4, NextLocFacts
  <1>6. /\ located' = Append(located, <<loc>>) /\ current' = c + 1 /\ consumed' = 1
        /\ UNCHANGED <<phase, ir, writer, section>>
    BY <1>1, <1>4, <1>5 DEF CreateFunction, Give
  <1>7. <<loc>> \in Seq(Loc) /\ Len(<<loc>>) = 1 /\ <<loc>>[1] = loc
    BY <1>5
  <1>8. located \in Seq(Seq(Loc)) /\ Len(located) = c
    BY <1>1, <1>2 DEF IInv, TypeOK, ReaderInFunction
  <1>9. /\ located' \in Seq(Seq(Loc)) /\ Len(located') = c + 1
        /\ \A g \in 1..c : located'[g] = located[g]
        /\ located'[c + 1] = <<loc>>
    BY <1>6, <1>7, <1>8, AppendProperties
  <1>10. \A g \in 1..c : Len(located[g]) = Len(ops[g]) + 1
    <2>1. c > 0 => Len(located[c]) = Len(ops[c]) + 1
      BY <1>1, <1>2 DEF FunctionRead
    <2>2. \A g \in 1..c : g < c => Len(located[g]) = Len(ops[g]) + 1
      BY <1>1, <1>8 DEF IInv, ReaderInFunction
    <2> QED BY <1>1, <2>1, <2>2
  <1>11. 0 + 1 = 1 /\ c + 1 - 1 = c /\ ~(1 > 1)
    BY <1>1
  <1> QED BY <1>1, <1>2, <1>3, <1>5, <1>6, <1>7, <1>8, <1>9, <1>10, <1>11 DEF ReadItem

LEMMA ReadOpReads ==
    ASSUME IInv, ReadOp
    PROVE  ReadItem(current, consumed + 1)
  <1> USE DEF ir, writer, section, reader
  <1>1. phase = "read" /\ Written /\ ~FunctionRead
    BY DEF ReadOp, Written
  <1>2. PICK c \in Nat : c = current /\ c \in 1..Len(locOf)
    BY <1>1, StateFacts DEF FunctionRead
  <1>3. PICK n \in Nat : n = Len(ops[c]) /\ ops[c] \in Seq(Loc)
    BY <1>2, StateFacts
  <1>4. located \in Seq(Seq(Loc)) /\ Len(located) = c
    BY <1>1, <1>2 DEF IInv, TypeOK, ReaderInFunction
  <1>5. PICK row : row = located[c] /\ row \in Seq(Loc) /\ Len(row) \in Nat
    BY <1>2, <1>4, ElementOfSeq, LenProperties
  <1>6. PICK k \in Nat : k = consumed /\ k = Len(row) /\ k > 0 /\ k < n + 1
    <2>1. consumed = Len(row) /\ consumed > 0
      BY <1>1, <1>2, <1>4, <1>5 DEF IInv, ReaderInFunction
    <2>2. Len(row) <= n + 1 /\ Len(row) # n + 1
      BY <1>1, <1>2, <1>3, <1>4, <1>5 DEF IInv, ReaderInFunction, FunctionRead
    <2> QED BY <1>3, <1>5, <2>1, <2>2
  <1>7. k \in 0..n /\ k + 1 \in 1..(n + 1) /\ k + 1 - 1 = k /\ k + 1 > 1 /\ k + 1 # 1
    BY <1>3, <1>6
  <1>8. PICK loc : loc = NextLoc(c, k)
    OBVIOUS
  <1>9. /\ loc = IF locOf[c] \in Reserved \/ ItemLoc(c, k + 1) \in Reserved
                 THEN UnknownLoc ELSE ItemLoc(c, k + 1)
        /\ loc \in Loc /\ loc # Null
    BY <1>1, <1>2, <1>3, <1>7, <1>8, NextLocFacts
  <1>10. PICK e : e = Append(row, loc)
    OBVIOUS
  <1>11. /\ e \in Seq(Loc) /\ Len(e) = k + 1 /\ e[k + 1] = loc
         /\ \A i \in 1..k : e[i] = row[i]
    BY <1>5, <1>6, <1>9, <1>10, AppendProperties
  <1>12. /\ located' = [located EXCEPT ![c] = e] /\ current' = c /\ consumed' = k + 1
         /\ UNCHANGED <<phase, ir, writer, section>>
    BY <1>2, <1>5, <1>6, <1>8, <1>9, <1>10 DEF ReadOp, Give
  <1>13. /\ located' \in Seq(Seq(Loc)) /\ Len(located') = c /\ located'[c] = e
         /\ \A g \in 1..c : g # c => located'[g] = located[g]
    BY <1>2, <1>4, <1>11, <1>12, ExceptSeq
  <1> QED BY <1>1, <1>2, <1>3, <1>4, <1>5, <1>6, <1>7, <1>9, <1>11, <1>12, <1>13 DEF ReadItem

LEMMA ReadItemKeeps ==
    ASSUME IInv, NEW f, NEW n, ReadItem(f, n)
    PROVE  IInv'
  <1> USE DEF ir, writer, section
  <1>0. /\ phase = "read" /\ phase' = "read" /\ current' = f /\ consumed' = n
        /\ UNCHANGED <<ir, writer, section>>
        /\ located' \in Seq(Seq(Loc)) /\ Len(located') = f
    BY DEF ReadItem
  <1>1. /\ f \in 1..Len(locOf) /\ f \in Nat /\ f > 0 /\ Len(ops[f]) \in Nat
        /\ n \in 1..(Len(ops[f]) + 1) /\ n \in Nat /\ n > 0
    BY StateFacts DEF ReadItem
  <1>2. TypeOK' /\ Shape'
    BY <1>0, <1>1, StateFacts DEF IInv, TypeOK, Shape
  <1>3. RowsByLocation' /\ ScopesVerified' /\ RowEntries'
    BY <1>0 DEF IInv, RowsByLocation, ScopesVerified, RowEntries, HasRow, Row, Rows, MayLocate
  <1>4. OffsetsAreSums' /\ IndicesHoldRows'
    BY <1>0 DEF IInv, OffsetsAreSums, IndicesHoldRows, Rows, Written
  <1>5. ASSUME NEW g \in 1..f, g # f
        PROVE  /\ g \in 1..Len(located) /\ located'[g] = located[g]
               /\ Len(located[g]) = Len(ops[g]) + 1
    <2>1. g \in 1..Len(located) /\ located'[g] = located[g]
      BY <1>1, <1>5 DEF ReadItem
    <2>2. CASE n = 1
      BY <1>1, <1>5, <2>1, <2>2 DEF ReadItem
    <2>3. CASE n # 1
      <3>1. Len(located) = f /\ Len(located) = current
        BY <1>0, <2>3 DEF ReadItem, IInv, ReaderInFunction, Written
      <3> QED BY <1>1, <1>5, <2>1, <3>1 DEF IInv, ReaderInFunction
    <2> QED BY <2>1, <2>2, <2>3
  <1>6. Len(located'[f]) = n
    BY DEF ReadItem
  <1>7. ReaderInFunction'
    <2>1. ASSUME NEW g \in 1..f
          PROVE  /\ Len(located'[g]) <= Len(ops[g]) + 1
                 /\ g < f => Len(located'[g]) = Len(ops[g]) + 1
      <3>1. CASE g = f
        BY <1>1, <1>6, <3>1
      <3>2. CASE g # f
        <4>1. Len(ops[g]) \in Nat
          BY <1>1, StateFacts
        <4> QED BY <1>5, <3>2, <4>1
      <3> QED BY <3>1, <3>2
    <2> QED BY <1>0, <1>1, <1>6, <2>1 DEF ReaderInFunction, Written
  <1>8. LocationsGiven'
    <2>1. ASSUME NEW g \in 1..f, NEW k \in 1..Len(located'[g])
          PROVE  located'[g][k] = IF locOf[g] \in Reserved \/ ItemLoc(g, k) \in Reserved
                                  THEN UnknownLoc ELSE ItemLoc(g, k)
      <3>1. CASE g # f
        BY <1>5, <2>1, <3>1 DEF IInv, LocationsGiven
      <3>2. CASE g = f /\ k = n
        BY <3>2 DEF ReadItem
      <3>3. CASE g = f /\ k # n
        <4>1. k \in 1..(n - 1) /\ n > 1
          BY <1>1, <1>6, <2>1, <3>3
        <4>2. /\ Len(located[f]) = n - 1 /\ located'[f][k] = located[f][k]
              /\ f \in 1..Len(located)
          BY <1>1, <4>1 DEF ReadItem
        <4> QED BY <3>3, <4>1, <4>2 DEF IInv, LocationsGiven
      <3> QED BY <3>1, <3>2, <3>3
    <2>2. locOf' = locOf /\ \A g, k : ItemLoc(g, k)' = ItemLoc(g, k)
      BY <1>0 DEF ItemLoc
    <2> QED BY <1>0, <2>1, <2>2 DEF LocationsGiven
  <1>9. NeverRefused'
    BY <1>0 DEF NeverRefused
  <1> QED BY <1>2, <1>3, <1>4, <1>7, <1>8, <1>9 DEF IInv

LEMMA FinishReadingKeeps ==
    ASSUME IInv, FinishReading
    PROVE  IInv'
  <1> USE DEF ir, writer, section, reader
  <1>0. /\ phase = "read" /\ phase' = "done"
        /\ UNCHANGED <<ir, writer, section, current, reader>>
    BY DEF FinishReading
  <1>1. TypeOK' /\ Shape'
    BY <1>0 DEF IInv, TypeOK, Shape, Phase
  <1>2. RowsByLocation' /\ ScopesVerified' /\ RowEntries'
    BY <1>0 DEF IInv, RowsByLocation, ScopesVerified, RowEntries, HasRow, Row, Rows, MayLocate
  <1>3. OffsetsAreSums' /\ IndicesHoldRows'
    BY <1>0 DEF IInv, OffsetsAreSums, IndicesHoldRows, Rows, Written
  <1>4. ReaderInFunction' /\ LocationsGiven' /\ NeverRefused'
    BY <1>0 DEF IInv, ReaderInFunction, LocationsGiven, NeverRefused, Written, ItemLoc
  <1> QED BY <1>1, <1>2, <1>3, <1>4 DEF IInv

LEMMA StutterKeeps ==
    ASSUME IInv, UNCHANGED vars
    PROVE  IInv'
  <1> USE DEF vars, ir, writer, section, reader
  <1>1. TypeOK' /\ Shape' /\ RowsByLocation' /\ ScopesVerified' /\ RowEntries'
    BY DEF IInv, TypeOK, Shape, RowsByLocation, ScopesVerified, RowEntries, HasRow, Row, Rows,
           MayLocate
  <1>2. OffsetsAreSums' /\ IndicesHoldRows' /\ ReaderInFunction' /\ LocationsGiven' /\ NeverRefused'
    BY SMTT(20) DEF IInv, OffsetsAreSums, IndicesHoldRows, ReaderInFunction, LocationsGiven,
           NeverRefused, Rows, Written, ItemLoc
  <1> QED BY <1>1, <1>2 DEF IInv

LEMMA NextKeeps ==
    ASSUME IInv, [Next]_vars
    PROVE  IInv'
  <1>1. CASE \E l \in FunctionLoc : AddFunction(l)
    BY <1>1, AddFunctionKeeps
  <1>2. CASE StartBody
    BY <1>2, StartBodyKeeps
  <1>3. CASE \E l \in Loc : WriteOp(l)
    BY <1>3, WriteOpKeeps
  <1>4. CASE StartSection
    BY <1>4, StartSectionKeeps
  <1>5. CASE WriteOffset
    BY <1>5, WriteOffsetKeeps
  <1>6. CASE StartIndices
    BY <1>6, StartIndicesKeeps
  <1>7. CASE WriteRow
    BY <1>7, WriteRowKeeps
  <1>8. CASE WriteAttributes
    BY <1>8, WriteAttributesKeeps
  <1>9. CASE CreateFunction
    BY <1>9, CreateFunctionReads, ReadItemKeeps
  <1>10. CASE ReadOp
    BY <1>10, ReadOpReads, ReadItemKeeps
  <1>11. CASE FinishReading
    BY <1>11, FinishReadingKeeps
  <1>12. CASE Ended \/ UNCHANGED vars
    BY <1>12, StutterKeeps DEF Ended
  <1> QED BY <1>1, <1>2, <1>3, <1>4, <1>5, <1>6, <1>7, <1>8, <1>9, <1>10, <1>11, <1>12 DEF Next

-----------------------------------------------------------------------------
(* The invariant holds in every state of writing a module with locations   *)
(* and reading it back: the rows are as the bodies were written, the       *)
(* offsets are their sums, and the iterator is where the parser is.        *)
THEOREM Invariant == Spec => []IInv
  <1>1. Init => IInv
    BY InitIInv
  <1>2. IInv /\ [Next]_vars => IInv'
    BY NextKeeps
  <1> QED BY <1>1, <1>2, PTL DEF Spec

(* The variables of writer and reader keep their types.                    *)
THEOREM TypeCorrect == Spec => []TypeOK
  <1>1. IInv => TypeOK
    BY DEF IInv
  <1> QED BY <1>1, Invariant, PTL

(* Every row of the debug section is that of one function, in the order in *)
(* which writeFunctionBody wrote the operations.                           *)
THEOREM RowsRight == Spec => []RowsHoldLocations
  <1>1. ASSUME IInv PROVE RowsHoldLocations
    <2>1. ASSUME NEW f \in 1..Len(locOf), HasRow(f)
          PROVE  /\ Row(f) \in DOMAIN debuginfoIndices
                 /\ debuginfoIndices[Row(f)] =
                      <<DiIndex[locOf[f]]>> \o [k \in DOMAIN ops[f] |-> DiIndex[ops[f][k]]]
      <3>1. PICK r : r = Row(f) /\ r \in 1..Len(debuginfoIndices) /\ debuginfoIndices[r] \in Seq(Nat)
        BY <1>1, <2>1, SectionFacts DEF IInv, RowEntries, Rows
      <3>2. DOMAIN debuginfoIndices = 1..Len(debuginfoIndices)
        BY <1>1, LenProperties DEF IInv, TypeOK
      <3>3. PICK n \in Nat : n = Len(ops[f])
        BY <1>1, StateFacts
      <3>4. PICK first : first = <<DiIndex[locOf[f]]>>
        OBVIOUS
      <3>5. first \in Seq(Nat) /\ Len(first) = 1 /\ first[1] = DiIndex[locOf[f]]
        BY <1>1, <3>4, StateFacts, DiIndexAssumption
      <3>6. PICK rest : rest = [k \in DOMAIN ops[f] |-> DiIndex[ops[f][k]]]
        OBVIOUS
      <3>7. DOMAIN ops[f] = 1..n /\ \A k \in 1..n : DiIndex[ops[f][k]] \in Nat
        BY <1>1, <3>3, StateFacts, DiIndexAssumption
      <3>8. rest \in [1..n -> Nat] /\ \A k \in 1..n : rest[k] = DiIndex[ops[f][k]]
        BY <3>6, <3>7
      <3>9. rest \in Seq(Nat) /\ Len(rest) = n
        BY <3>3, <3>8, LenProperties, IsASeq
      <3>10. PICK all : all = first \o rest
        OBVIOUS
      <3>11. /\ all \in Seq(Nat) /\ Len(all) = 1 + n
             /\ \A k \in 1..(1 + n) : all[k] = IF k <= 1 THEN first[k] ELSE rest[k - 1]
        <4>1. /\ all \in Seq(Nat) /\ Len(all) = Len(first) + Len(rest)
              /\ \A k \in 1..(Len(first) + Len(rest)) :
                    all[k] = IF k <= Len(first) THEN first[k] ELSE rest[k - Len(first)]
          BY <3>5, <3>9, <3>10, ConcatProperties
        <4> QED BY <3>5, <3>9, <4>1
      <3>12. Len(debuginfoIndices[r]) = 1 + n
        BY <1>1, <2>1, <3>1, <3>3 DEF IInv, RowEntries
      <3>13. ASSUME NEW k \in 1..(1 + n) PROVE debuginfoIndices[r][k] = all[k]
        <4>1. CASE k = 1
          <5>1. debuginfoIndices[r][1] = DiIndex[locOf[f]]
            BY <1>1, <2>1, <3>1 DEF IInv, RowEntries
          <5>2. all[1] = first[1]
            BY <3>3, <3>11
          <5> QED BY <3>5, <4>1, <5>1, <5>2
        <4>2. CASE k # 1
          <5>1. PICK j \in 1..n : k = j + 1 /\ k - 1 = j /\ ~(k <= 1)
            BY <3>3, <4>2
          <5>2. debuginfoIndices[r][j + 1] = DiIndex[ops[f][j]]
            BY <1>1, <2>1, <3>1, <3>3, <5>1 DEF IInv, RowEntries
          <5> QED BY <3>8, <3>11, <5>1, <5>2
        <4> QED BY <4>1, <4>2
      <3>14. debuginfoIndices[r] = all
        BY <3>1, <3>11, <3>12, <3>13, SeqEqual
      <3> QED BY <3>1, <3>2, <3>4, <3>6, <3>10, <3>14
    <2> QED BY <1>1, <2>1, StateFacts DEF IInv, RowEntries, RowsHoldLocations
  <1>2. IInv => RowsHoldLocations
    BY <1>1
  <1> QED BY <1>2, Invariant, PTL

(* What the reader has given, in the terms of the properties.              *)
LEMMA GivenFacts ==
    ASSUME IInv
    PROVE  /\ DOMAIN located = 1..Len(located)
           /\ \A f \in 1..Len(located) :
                 /\ f \in 1..Len(locOf) /\ DOMAIN located[f] = 1..Len(located[f])
                 /\ \A n \in 1..Len(located[f]) : n \in 1..(Len(ops[f]) + 1)
  <1>1. located \in Seq(Seq(Loc))
    BY DEF IInv, TypeOK
  <1>2. Len(located) \in Nat /\ DOMAIN located = 1..Len(located)
    BY <1>1, LenProperties
  <1>3. Len(located) <= Len(locOf)
    <2>1. CASE Written
      BY <2>1, StateFacts DEF IInv, ReaderInFunction
    <2>2. CASE ~Written
      BY <2>2, StateFacts, EmptySeq DEF IInv, ReaderInFunction
    <2> QED BY <2>1, <2>2
  <1>4. ASSUME NEW f \in 1..Len(located)
        PROVE  /\ f \in 1..Len(locOf) /\ DOMAIN located[f] = 1..Len(located[f])
               /\ \A n \in 1..Len(located[f]) : n \in 1..(Len(ops[f]) + 1)
    <2>1. f \in 1..Len(locOf)
      BY <1>2, <1>3, StateFacts
    <2>2. Len(located[f]) \in Nat /\ DOMAIN located[f] = 1..Len(located[f])
      BY <1>1, ElementOfSeq, LenProperties
    <2>3. Len(ops[f]) \in Nat /\ Len(located[f]) <= Len(ops[f]) + 1
      BY <2>1, StateFacts DEF IInv, ReaderInFunction
    <2> QED BY <2>1, <2>2, <2>3
  <1> QED BY <1>2, <1>4

(* Every function and operation that is read gets the location it was      *)
(* written with, unless that or its function's is reserved.                *)
THEOREM LocationsReturn == Spec => []LocationsSurvive
  <1>1. IInv => LocationsSurvive
    BY GivenFacts DEF IInv, LocationsGiven, LocationsSurvive
  <1> QED BY <1>1, Invariant, PTL

(* A location with a scope always comes back: DebugInfoVerifier has kept   *)
(* it out of the functions whose rows the writer leaves out.               *)
THEOREM ScopesReturn == Spec => []ScopesSurvive
  <1>1. ASSUME IInv PROVE ScopesSurvive
    <2>1. ASSUME NEW f \in 1..Len(located), NEW n \in 1..Len(located[f]),
                 ItemLoc(f, n) \in Scoped
          PROVE  located[f][n] = ItemLoc(f, n)
      <3>1. f \in 1..Len(locOf) /\ n \in 1..(Len(ops[f]) + 1) /\ Len(ops[f]) \in Nat
        BY <1>1, <2>1, GivenFacts, StateFacts
      <3>2. locOf[f] \in Scoped \cup Unsupported
        <4>1. CASE n = 1
          BY <2>1, <4>1 DEF ItemLoc
        <4>2. CASE n # 1
          <5>1. n - 1 \in 1..Len(ops[f]) /\ ItemLoc(f, n) = ops[f][n - 1]
            BY <3>1, <4>2 DEF ItemLoc
          <5>2. MayLocate(f, ops[f][n - 1])
            BY <1>1, <3>1, <5>1 DEF IInv, ScopesVerified
          <5> QED BY <2>1, <5>1, <5>2 DEF MayLocate
        <4> QED BY <4>1, <4>2
      <3>3. locOf[f] \notin Reserved /\ ItemLoc(f, n) \notin Reserved
        BY <2>1, <3>2, LocAssumption
      <3> QED BY <1>1, <2>1, <3>3 DEF IInv, LocationsGiven
    <2> QED BY <1>1, <2>1, GivenFacts DEF ScopesSurvive
  <1>2. IInv => ScopesSurvive
    BY <1>1
  <1> QED BY <1>2, Invariant, PTL

(* DebugInfoReader::Iterator never gives one function the location of an   *)
(* operation of another.                                                   *)
THEOREM IteratorStays == Spec => []IteratorInRow
  <1>1. ASSUME IInv, phase = "read", current > 0, HasRow(current)
        PROVE  consumed <= Len(debuginfoIndices[Row(current)])
    <2>1. current \in 1..Len(locOf) /\ Written /\ Len(located) = current
      BY <1>1, StateFacts DEF IInv, ReaderInFunction, Written
    <2>2. consumed = Len(located[current]) /\ Len(located[current]) <= Len(ops[current]) + 1
      BY <1>1, <2>1 DEF IInv, ReaderInFunction
    <2> QED BY <1>1, <2>1, <2>2 DEF IInv, RowEntries
  <1>2. IInv => IteratorInRow
    BY <1>1 DEF IteratorInRow
  <1> QED BY <1>2, Invariant, PTL

(* Iterator::next never runs out of indices in a module that was written.  *)
THEOREM AlwaysReadable == Spec => []NeverRefused
  <1>1. IInv => NeverRefused
    BY DEF IInv
  <1> QED BY <1>1, Invariant, PTL
=============================================================================

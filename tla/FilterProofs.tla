---------------------------- MODULE FilterProofs ----------------------------
(***************************************************************************)
(* Proofs about the filter demo, for buffers of any size, any command      *)
(* lines and any inputs.                                                   *)
(***************************************************************************)
EXTENDS Filter, WellFoundedInduction, TLAPS

(***************************************************************************)
(* The inductive invariant: BufferHoldsRow, and what the exit status       *)
(* rests on: every word read was a number, and nothing is read or written  *)
(* before the script is compiled.                                          *)
(***************************************************************************)
NumbersRead == \A k \in 1..next : input[k] = "number"

NothingBefore ==
    stage \in {"options", "compile"} => next = 0 /\ index = 0 /\ rows = <<>>

Inductive ==
    /\ BufferHoldsRow
    /\ in \in Seq(Nat) /\ rows \in Seq(Seq(Nat))
    /\ NumbersRead
    /\ NothingBefore

-----------------------------------------------------------------------------
(* A row has at least one number and a buffer at least one element.        *)
LEMMA Sizes ==
    ASSUME command \in Commands
    PROVE  /\ Width \in Nat \ {0} /\ Capacity \in Nat \ {0}
           /\ command.ivector \in Nat /\ command.ovector \in Nat
<1>1. /\ MAX_VECTOR_ELEMENTS \in Nat \ {0}
      /\ command.ivector \in Nat /\ command.ovector \in Nat
  BY FilterAssumption
<1> QED  BY <1>1 DEF Width, Capacity, InRows

LEMMA InputWords ==
    ASSUME input \in Inputs
    PROVE  /\ input \in Seq({"number", "malformed"})
           /\ Len(input) \in Nat
BY FilterAssumption

LEMMA OneRowMore ==
    ASSUME NEW a \in Nat, NEW w \in Nat
    PROVE  (a + 1) * w = a * w + w /\ a * w \in Nat
OBVIOUS

-----------------------------------------------------------------------------
LEMMA InitInductive == Init => Inductive
<1> SUFFICES ASSUME Init PROVE Inductive
  OBVIOUS
<1>1. Width \in Nat \ {0} /\ Len(input) \in Nat
  BY Sizes, InputWords DEF Init
<1>2. TypeOK
  BY <1>1 DEF Init, TypeOK
<1>3. next = Len(rows) * Width + index
  BY <1>1 DEF Init
<1>4. /\ in \in Seq(Nat) /\ rows \in Seq(Seq(Nat))
      /\ NumbersRead /\ NothingBefore
  BY DEF Init, NumbersRead, NothingBefore
<1> QED  BY <1>2, <1>3, <1>4 DEF Inductive, BufferHoldsRow, Init

(* Whatever ends the program leaves the row as it is.                      *)
LEMMA Stopped ==
    ASSUME Inductive, stage' \in {"exited", "overrun"}, code' \in {0, 1},
           UNCHANGED <<command, input, next, in, index, rows>>
    PROVE  Inductive'
<1>1. Width' = Width
  BY DEF Width, InRows
<1>2. TypeOK'
  BY <1>1 DEF Inductive, BufferHoldsRow, TypeOK
<1>3. BufferHoldsRow'
  BY <1>1, <1>2 DEF Inductive, BufferHoldsRow
<1>4. NumbersRead' /\ NothingBefore'
  BY DEF Inductive, NumbersRead, NothingBefore
<1> QED  BY <1>3, <1>4 DEF Inductive

LEMMA CheckOptionsInductive ==
    ASSUME Inductive, CheckOptions
    PROVE  Inductive'
<1>1. CASE Objected # {}
  <2>1. stage' = "exited" /\ code' = 1
        /\ UNCHANGED <<command, input, next, in, index, rows>>
    BY <1>1 DEF CheckOptions, Exit
  <2> QED  BY <2>1, Stopped
<1>2. CASE Objected = {}
  <2>1. stage' = "compile"
        /\ UNCHANGED <<command, input, next, in, index, rows, complaint, code>>
    BY <1>2 DEF CheckOptions
  <2>2. Width' = Width
    BY <2>1 DEF Width, InRows
  <2>3. BufferHoldsRow'
    BY <2>1, <2>2 DEF Inductive, BufferHoldsRow, TypeOK
  <2>4. NumbersRead' /\ NothingBefore'
    BY <2>1 DEF Inductive, NumbersRead, NothingBefore, CheckOptions
  <2> QED  BY <2>1, <2>3, <2>4 DEF Inductive
<1> QED  BY <1>1, <1>2

LEMMA CompileInductive ==
    ASSUME Inductive, Compile
    PROVE  Inductive'
<1>1. CASE Exit(1, "compilation")
  BY <1>1, Stopped DEF Exit
<1>2. CASE /\ stage' = "read"
           /\ in' = [i \in 1..Capacity |-> Garbage]
           /\ UNCHANGED <<command, input, next, index, rows, complaint, code>>
  <2>1. Width' = Width /\ Capacity' = Capacity
    BY <1>2 DEF Width, Capacity, InRows
  <2>2. Width \in Nat \ {0} /\ Capacity \in Nat \ {0}
    BY Sizes DEF Inductive, BufferHoldsRow, TypeOK
  <2>3. next = 0 /\ index = 0 /\ rows = <<>>
    BY DEF Compile, Inductive, NothingBefore
  <2>4. in' \in Seq(Nat) /\ Len(in') = Capacity
    BY <1>2, <2>2 DEF Garbage
  <2>5. TypeOK'
    BY <1>2, <2>1, <2>3 DEF Inductive, BufferHoldsRow, TypeOK, Garbage
  <2>6. BufferHoldsRow'
    BY <1>2, <2>1, <2>2, <2>3, <2>4, <2>5 DEF Inductive, BufferHoldsRow
  <2>7. NumbersRead' /\ NothingBefore'
    BY <1>2 DEF Inductive, NumbersRead, NothingBefore
  <2> QED  BY <1>2, <2>4, <2>6, <2>7 DEF Inductive
<1> QED  BY <1>1, <1>2 DEF Compile

LEMMA ReadNumberInductive ==
    ASSUME Inductive, ReadNumber
    PROVE  Inductive'
<1>1. CASE next = Len(input)
  BY <1>1, Stopped DEF ReadNumber, Exit
<1>2. CASE next # Len(input) /\ index >= Capacity
  BY <1>2, Stopped DEF ReadNumber, Overrun, Inductive, BufferHoldsRow, TypeOK
<1>3. CASE next # Len(input) /\ ~ (index >= Capacity) /\ input[next + 1] = "malformed"
  BY <1>3, Stopped DEF ReadNumber, Exit
<1>4. CASE next # Len(input) /\ ~ (index >= Capacity) /\ input[next + 1] # "malformed"
  <2>1. /\ stage = "read" /\ index < Width
        /\ next' = next + 1 /\ index' = index + 1
        /\ in' = [in EXCEPT ![index + 1] = next + 1]
        /\ UNCHANGED <<command, input, stage, rows, complaint, code>>
    BY <1>4 DEF ReadNumber
  <2>2. Width' = Width /\ Capacity' = Capacity
    BY <2>1 DEF Width, Capacity, InRows
  <2>3. /\ Width \in Nat \ {0} /\ Capacity \in Nat \ {0}
        /\ input \in Seq({"number", "malformed"}) /\ Len(input) \in Nat
    BY Sizes, InputWords DEF Inductive, BufferHoldsRow, TypeOK
  <2>4. /\ next \in Nat /\ index \in Nat /\ index + 1 <= Width
        /\ next + 1 <= Len(input) /\ in \in Seq(Nat) /\ Len(in) = Capacity
        /\ index + 1 \in 1..Len(in)
    BY <1>4, <2>1, <2>3 DEF Inductive, BufferHoldsRow, TypeOK
  <2>5. /\ in' \in Seq(Nat) /\ Len(in') = Capacity /\ DOMAIN in' = DOMAIN in
        /\ in'[index + 1] = next + 1
        /\ \A i \in 1..index : in'[i] = in[i]
    BY <2>1, <2>4
  <2>6. \A i \in DOMAIN in' : in'[i] \in 0..next'
    BY <2>1, <2>4, <2>5 DEF Inductive, BufferHoldsRow, TypeOK
  <2>7. TypeOK'
    BY <2>1, <2>2, <2>3, <2>4, <2>6 DEF Inductive, BufferHoldsRow, TypeOK
  <2>8. next' = Len(rows') * Width' + index'
    BY <2>1, <2>2, <2>3, <2>4, OneRowMore DEF Inductive, BufferHoldsRow
  <2>9. \A i \in 1..index' : in'[i] = next' - index' + i
    <3>1. \A i \in 1..index : in[i] = next - index + i
      BY <2>1 DEF Inductive, BufferHoldsRow
    <3> QED  BY <2>1, <2>4, <2>5, <3>1
  <2>10. BufferHoldsRow'
    BY <2>1, <2>2, <2>4, <2>5, <2>7, <2>8, <2>9 DEF BufferHoldsRow
  <2>11. NumbersRead'
    <3>1. input[next + 1] = "number"
      BY <1>4, <2>3, <2>4
    <3> QED  BY <2>1, <2>4, <3>1 DEF Inductive, NumbersRead
  <2>12. NothingBefore'
    BY <2>1 DEF NothingBefore
  <2> QED  BY <2>1, <2>5, <2>10, <2>11, <2>12 DEF Inductive
<1> QED  BY <1>1, <1>2, <1>3, <1>4

LEMMA CallAndWriteInductive ==
    ASSUME Inductive, CallAndWrite
    PROVE  Inductive'
<1>1. CASE InRows /\ command.ovector > Capacity
  BY <1>1, Stopped DEF CallAndWrite, Overrun, Inductive, BufferHoldsRow, TypeOK
<1>2. CASE ~ (InRows /\ command.ovector > Capacity)
  <2>1. /\ stage = "read" /\ index = Width
        /\ rows' = Append(rows, SubSeq(in, 1, Width)) /\ index' = 0
        /\ UNCHANGED <<command, input, next, stage, in, complaint, code>>
    BY <1>2 DEF CallAndWrite
  <2>2. Width' = Width /\ Capacity' = Capacity
    BY <2>1 DEF Width, Capacity, InRows
  <2>3. Width \in Nat \ {0} /\ Capacity \in Nat \ {0}
    BY Sizes DEF Inductive, BufferHoldsRow, TypeOK
  <2>4. /\ SubSeq(in, 1, Width) \in Seq(Nat)
        /\ rows' \in Seq(Seq(Nat)) /\ Len(rows') = Len(rows) + 1
    BY <2>1, <2>3 DEF Inductive, BufferHoldsRow
  <2>5. TypeOK'
    BY <2>1, <2>2, <2>3 DEF Inductive, BufferHoldsRow, TypeOK
  <2>6. next' = Len(rows') * Width' + index'
    <3>1. next = Len(rows) * Width + Width /\ Len(rows) \in Nat
      BY <2>1 DEF Inductive, BufferHoldsRow
    <3> QED  BY <2>1, <2>2, <2>3, <2>4, <3>1, OneRowMore
  <2>7. BufferHoldsRow'
    BY <2>1, <2>2, <2>3, <2>5, <2>6 DEF Inductive, BufferHoldsRow
  <2>8. NumbersRead' /\ NothingBefore'
    BY <2>1 DEF Inductive, NumbersRead, NothingBefore
  <2> QED  BY <2>1, <2>4, <2>7, <2>8 DEF Inductive
<1> QED  BY <1>1, <1>2

LEMMA StepInductive == Inductive /\ [Next]_vars => Inductive'
<1> SUFFICES ASSUME Inductive, [Next]_vars PROVE Inductive'
  OBVIOUS
<1>1. CASE CheckOptions
  BY <1>1, CheckOptionsInductive
<1>2. CASE Compile
  BY <1>2, CompileInductive
<1>3. CASE ReadNumber
  BY <1>3, ReadNumberInductive
<1>4. CASE CallAndWrite
  BY <1>4, CallAndWriteInductive
<1>5. CASE UNCHANGED vars
  <2>1. Width' = Width /\ Capacity' = Capacity
    BY <1>5 DEF vars, Width, Capacity, InRows
  <2> QED
    BY <1>5, <2>1 DEF vars, Inductive, BufferHoldsRow, TypeOK, NumbersRead, NothingBefore
<1> QED  BY <1>1, <1>2, <1>3, <1>4, <1>5 DEF Next

(* The inductive invariant holds of every run.                             *)
THEOREM Invariance == Spec => []Inductive
<1> QED  BY InitInductive, StepInductive, PTL DEF Spec

(* A row is read into the buffer of the right place and never mixed with   *)
(* the one before (process_data_rows()), for buffers and rows of any size. *)
THEOREM BufferNeverMixesRows == Spec => []BufferHoldsRow
<1>1. Inductive => BufferHoldsRow
  BY DEF Inductive
<1> QED  BY <1>1, Invariance, PTL

-----------------------------------------------------------------------------
(* The refinement of RowContract.                                          *)
LEMMA ContractInit == Init => Contract!Init
<1> SUFFICES ASSUME Init PROVE Contract!Init
  OBVIOUS
<1>1. Width \in Nat \ {0}
  BY Sizes DEF Init
<1>2. Ended = "no"
  BY DEF Init, Ended
<1> QED  BY <1>1, <1>2 DEF Init, Contract!Init

(* The row that is being read, seen from outside.                          *)
LEMMA RowBeingRead ==
    ASSUME Inductive, stage = "read"
    PROVE  /\ Contract!Written = next - index
           /\ Contract!Row = {i \in DOMAIN input : next - index < i /\ i <= next - index + Width}
           /\ Contract!Whole <=> next - index + Width <= Len(input)
           /\ next \in Nat /\ index \in Nat /\ Width \in Nat \ {0}
           /\ Len(input) \in Nat /\ DOMAIN input = 1..Len(input)
           /\ next <= Len(input) /\ index <= Width
<1>1. /\ next \in Nat /\ index \in Nat /\ Width \in Nat \ {0}
      /\ Len(input) \in Nat /\ DOMAIN input = 1..Len(input)
      /\ next <= Len(input) /\ index <= Width
  BY Sizes, InputWords DEF Inductive, BufferHoldsRow, TypeOK
<1>2. Len(rows) * Width \in Nat
  BY <1>1, OneRowMore DEF Inductive
<1>3. Contract!Written = next - index
  BY <1>1, <1>2 DEF Inductive, BufferHoldsRow, Contract!Written
<1> QED  BY <1>1, <1>3 DEF Contract!Row, Contract!Whole

LEMMA EndedBefore ==
    ASSUME stage \in {"options", "compile", "read"}
    PROVE  Ended = "no"
BY DEF Ended

LEMMA SizesUnchanged ==
    ASSUME UNCHANGED command
    PROVE  /\ Width' = Width /\ Capacity' = Capacity /\ InRows' = InRows
BY DEF Width, Capacity, InRows

(* main() has eight objections, none of them about a malformed word of the *)
(* input, and reports one of them.                                         *)
LEMMA Objectives ==
    /\ DOMAIN Objections = 1..8
    /\ \A i \in 1..8 : Objections[i][2] # "malformed"
<1>1. DOMAIN Objections = 1..8
  BY DEF Objections
<1>2. /\ Objections[1][2] # "malformed" /\ Objections[2][2] # "malformed"
      /\ Objections[3][2] # "malformed" /\ Objections[4][2] # "malformed"
      /\ Objections[5][2] # "malformed" /\ Objections[6][2] # "malformed"
      /\ Objections[7][2] # "malformed" /\ Objections[8][2] # "malformed"
  BY DEF Objections
<1>3. \A i \in 1..8 : i \in {1, 2, 3, 4, 5, 6, 7, 8}
  OBVIOUS
<1> QED  BY <1>1, <1>2, <1>3

LEMMA FirstObjection ==
    ASSUME Objected # {}
    PROVE  (CHOOSE i \in Objected : \A j \in Objected : i <= j) \in 1..8
<1>1. Objected \subseteq 1..8
  BY Objectives DEF Objected
<1> DEFINE Less == {ss \in Nat \X Nat : ss[1] < ss[2]}
<1>2. IsWellFoundedOn(Less, Nat)
  BY NatLessThanWellFounded DEF OpToRel
<1>3. PICK k \in Objected : \A j \in Objected : ~ (<<j, k>> \in Less)
  <2>1. Objected \subseteq Nat
    BY <1>1
  <2> HIDE DEF Less
  <2> QED  BY <1>2, <2>1, WFMin
<1>4. ASSUME NEW j \in Objected PROVE k <= j
  <2>1. j \in Nat /\ k \in Nat
    BY <1>1
  <2>2. ~ (<<j, k>> \in Less)
    BY <1>3
  <2>3. ~ (j < k)
    BY <2>1, <2>2
  <2> QED  BY <2>1, <2>3
<1> QED  BY <1>1, <1>4

LEMMA RefusalRefines ==
    ASSUME Inductive, CheckOptions \/ Compile
    PROVE  [Contract!Next]_(Contract!vars)
<1>1. rows = <<>> /\ Ended = "no"
  BY EndedBefore DEF CheckOptions, Compile, Inductive, NothingBefore
<1>2. UNCHANGED <<command, input, rows>>
  BY DEF CheckOptions, Compile, Exit
<1>3. Width' = Width /\ Capacity' = Capacity /\ InRows' = InRows
  BY <1>2, SizesUnchanged
<1>4. CASE CheckOptions /\ Objected # {}
  <2> DEFINE first == CHOOSE i \in Objected : \A j \in Objected : i <= j
  <2>1. stage' = "exited" /\ code' = 1 /\ complaint' = Objections[first][2]
    BY <1>4 DEF CheckOptions, Exit
  <2>2. first \in 1..8
    BY <1>4, FirstObjection
  <2>3. Objections[first][2] # "malformed"
    <3> HIDE DEF first
    <3> QED  BY <2>2, Objectives
  <2>4. Ended' = "refused: 1"
    <3> HIDE DEF first
    <3> QED  BY <2>1, <2>3 DEF Ended
  <2>5. Contract!Refuse
    BY <1>1, <1>2, <1>3, <2>4 DEF Contract!Refuse, Contract!End
  <2> QED  BY <2>5 DEF Contract!Next
<1>5. CASE Exit(1, "compilation")
  <2>1. Ended' = "refused: 1"
    BY <1>5 DEF Exit, Ended
  <2>2. Contract!Refuse
    BY <1>1, <1>2, <1>3, <2>1 DEF Contract!Refuse, Contract!End
  <2> QED  BY <2>2 DEF Contract!Next
<1>6. CASE stage' \in {"compile", "read"}
  <2>1. Ended' = "no"
    BY <1>6 DEF Ended
  <2> QED  BY <1>1, <1>2, <1>3, <2>1 DEF Contract!vars
<1> QED  BY <1>4, <1>5, <1>6 DEF CheckOptions, Compile

LEMMA OverrunRefines ==
    ASSUME Inductive, stage = "read", Overrun,
           ~ (Width <= Capacity /\ (InRows => command.ovector <= Capacity))
    PROVE  Contract!Next
<1>1. Ended = "no"
  BY EndedBefore
<1>2. UNCHANGED <<command, input, rows>> /\ Ended' = "overrun"
  BY DEF Overrun, Ended
<1>3. Width' = Width /\ Capacity' = Capacity /\ InRows' = InRows
  BY <1>2, SizesUnchanged
<1>4. Contract!Overrun
  BY <1>1, <1>2, <1>3 DEF Contract!Overrun, Contract!End
<1> QED  BY <1>4 DEF Contract!Next

LEMMA ReadNumberRefines ==
    ASSUME Inductive, ReadNumber
    PROVE  [Contract!Next]_(Contract!vars)
<1>1. stage = "read" /\ Ended = "no" /\ index < Width
  BY EndedBefore DEF ReadNumber
<1>2. UNCHANGED <<command, input, rows>>
  BY DEF ReadNumber, Exit, Overrun
<1>3. Width' = Width /\ Capacity' = Capacity /\ InRows' = InRows
  BY <1>2, SizesUnchanged
<1>4. /\ Contract!Row = {i \in DOMAIN input : next - index < i /\ i <= next - index + Width}
      /\ Contract!Whole <=> next - index + Width <= Len(input)
      /\ next \in Nat /\ index \in Nat /\ Width \in Nat \ {0}
      /\ Len(input) \in Nat /\ DOMAIN input = 1..Len(input)
      /\ next <= Len(input) /\ index <= Width
  BY <1>1, RowBeingRead
<1>5. CASE next = Len(input)
  <2>1. ~ Contract!Whole
    BY <1>1, <1>4, <1>5
  <2>2. \A i \in Contract!Row : input[i] = "number"
    BY <1>4, <1>5 DEF Inductive, NumbersRead
  <2>3. Contract!Row = {} <=> index = 0
    <3>1. index = 0 => Contract!Row = {}
      BY <1>4, <1>5
    <3>2. index # 0 => Len(input) \in Contract!Row
      <4>1. next - index \in Nat
        BY <1>1, <1>4, Sizes, OneRowMore DEF Inductive, BufferHoldsRow, TypeOK
      <4> QED  BY <1>1, <1>4, <1>5, <4>1
    <3> QED  BY <3>1, <3>2
  <2>4. Exit(0, IF index = 0 THEN "none" ELSE "partial row")
    BY <1>5 DEF ReadNumber
  <2>5. Ended' = IF index = 0 THEN "complete: 0" ELSE "partial: 0"
    BY <2>4 DEF Exit, Ended
  <2>6. Contract!Finish
    BY <1>1, <1>2, <1>3, <2>1, <2>2, <2>3, <2>5
    DEF Contract!Finish, Contract!Sound, Contract!End
  <2> QED  BY <2>6 DEF Contract!Next
<1>6. CASE next # Len(input) /\ index >= Capacity
  <2>1. Capacity \in Nat /\ Width \in Nat /\ index \in Nat
    BY Sizes DEF Inductive, BufferHoldsRow, TypeOK
  <2>2. Overrun
    BY <1>6 DEF ReadNumber, Exit, Overrun
  <2>3. ~ (Width <= Capacity)
    BY <1>1, <1>6, <2>1
  <2> QED  BY <1>1, <2>2, <2>3, OverrunRefines
<1>7. CASE next # Len(input) /\ ~ (index >= Capacity) /\ input[next + 1] = "malformed"
  <2>1. next + 1 \in Contract!Row
    <3>1. next + 1 \in 1..Len(input)
      BY <1>7, Sizes, InputWords DEF Inductive, BufferHoldsRow, TypeOK
    <3>2. next - index < next + 1 /\ next + 1 <= next - index + Width
      BY <1>1, <1>4
    <3> QED  BY <1>4, <3>1, <3>2
  <2>2. ~ Contract!Sound
    BY <1>7, <2>1 DEF Contract!Sound
  <2>3. Ended' = "malformed: 1"
    <3>1. Exit(1, "malformed")
      BY <1>7 DEF ReadNumber, Exit, Overrun
    <3> QED  BY <3>1 DEF Exit, Ended
  <2>4. Contract!Malformed
    BY <1>1, <1>2, <1>3, <2>2, <2>3 DEF Contract!Malformed, Contract!End
  <2> QED  BY <2>4 DEF Contract!Next
<1>8. CASE next # Len(input) /\ ~ (index >= Capacity) /\ input[next + 1] # "malformed"
  <2>1. Ended' = "no"
    BY <1>1, <1>8 DEF ReadNumber, Ended
  <2> QED  BY <1>1, <1>2, <1>3, <2>1 DEF Contract!vars
<1> QED  BY <1>5, <1>6, <1>7, <1>8

LEMMA CallAndWriteRefines ==
    ASSUME Inductive, CallAndWrite
    PROVE  [Contract!Next]_(Contract!vars)
<1>1. stage = "read" /\ Ended = "no" /\ index = Width
  BY EndedBefore DEF CallAndWrite
<1>2. UNCHANGED <<command, input>>
  BY DEF CallAndWrite, Overrun
<1>3. Width' = Width /\ Capacity' = Capacity /\ InRows' = InRows
  BY <1>2, SizesUnchanged
<1>4. CASE InRows /\ command.ovector > Capacity
  <2>1. Capacity \in Nat /\ command.ovector \in Nat
    BY Sizes DEF Inductive, BufferHoldsRow, TypeOK
  <2> QED  BY <1>1, <1>4, <2>1, OverrunRefines DEF CallAndWrite
<1>5. CASE ~ (InRows /\ command.ovector > Capacity)
  <2>1. /\ Contract!Written = next - index
        /\ Contract!Row = {i \in DOMAIN input : next - index < i /\ i <= next - index + Width}
        /\ Contract!Whole <=> next - index + Width <= Len(input)
        /\ next \in Nat /\ index \in Nat /\ Width \in Nat \ {0}
        /\ Len(input) \in Nat /\ DOMAIN input = 1..Len(input) /\ next <= Len(input)
    BY <1>1, RowBeingRead
  <2>2. Contract!Whole
    BY <1>1, <2>1
  <2>3. Contract!Sound
    BY <1>1, <2>1 DEF Contract!Sound, Inductive, NumbersRead
  <2>4. SubSeq(in, 1, Width) = [i \in 1..Width |-> Contract!Written + i]
    <3>1. in \in Seq(Nat) /\ Width <= Len(in)
      BY <1>1 DEF Inductive, BufferHoldsRow
    <3>2. \A i \in 1..Width : in[i] = next - index + i
      BY <1>1 DEF Inductive, BufferHoldsRow
    <3>3. SubSeq(in, 1, Width) = [i \in 1..Width |-> in[i]]
      BY <2>1, <3>1
    <3> QED  BY <2>1, <3>2, <3>3
  <2>5. Ended' = "no"
    BY <1>1, <1>5 DEF CallAndWrite, Ended
  <2>6. Contract!WriteRow
    BY <1>1, <1>2, <1>3, <1>5, <2>2, <2>3, <2>4, <2>5
    DEF CallAndWrite, Contract!WriteRow
  <2> QED  BY <2>6 DEF Contract!Next
<1> QED  BY <1>4, <1>5

LEMMA StepRefines ==
    Inductive /\ [Next]_vars => [Contract!Next]_(Contract!vars)
<1> SUFFICES ASSUME Inductive, [Next]_vars PROVE [Contract!Next]_(Contract!vars)
  OBVIOUS
<1>1. CASE CheckOptions \/ Compile
  BY <1>1, RefusalRefines
<1>2. CASE ReadNumber
  BY <1>2, ReadNumberRefines
<1>3. CASE CallAndWrite
  BY <1>3, CallAndWriteRefines
<1>4. CASE UNCHANGED vars
  <2>1. UNCHANGED <<command, input, rows, stage, code, complaint>>
    BY <1>4 DEF vars
  <2>2. Width' = Width /\ Capacity' = Capacity /\ InRows' = InRows
    BY <2>1, SizesUnchanged
  <2>3. Ended' = Ended
    BY <2>1 DEF Ended
  <2> QED  BY <2>1, <2>2, <2>3 DEF Contract!vars
<1> QED  BY <1>1, <1>2, <1>3, <1>4 DEF Next

(* filter implements RowContract (its safety part), whatever the size of   *)
(* its buffers and of its rows: every step reads part of a row, or writes  *)
(* the next whole row, or ends with the status that the input calls for.   *)
THEOREM FilterImplementsContract == Spec => Contract!Safety
<1> QED
  BY Invariance, ContractInit, StepRefines, PTL DEF Spec, Contract!Safety
=============================================================================

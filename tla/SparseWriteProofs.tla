-------------------------- MODULE SparseWriteProofs --------------------------
(***************************************************************************)
(* For every word, segment and buffer size: the sparse writer's file is    *)
(* the data it was given, and its skip counter never wraps around.         *)
(***************************************************************************)
EXTENDS SparseWrite, TLAPS

\* The provers of a leaf that names none.
USE ZenonT(60), SMTT(60)

\* What holds between two steps: nothing is left of a buffer between two calls,
\* and a position behind the end of the file always has a pending skip, which
\* is what lets LZ4IO_fwriteSparseEnd restore the size.
Between ==
    /\ pc = "idle" => handled = Len(data)
    /\ storedSkips = 0 => pos = Len(file)
    /\ ~sparse => storedSkips = 0 /\ pc = "idle"

IInv == TypeOK /\ SkipsBounded /\ FileIsData /\ Between

\* Unsigned arithmetic is exact below the width.
LEMMA USmall ==
    ASSUME NEW n \in Nat, n <= UnsignedMax
    PROVE  U(n) = n
BY SparseAssumption DEF U

\* What a write at a position behind the end of a file makes of it.
LEMMA WriteAtResult ==
    ASSUME NEW f \in Seq(Byte), NEW at \in Nat, NEW s \in Seq(Byte), Len(f) <= at
    PROVE  /\ WriteAt(f, at, s) \in Seq(Byte)
           /\ Len(WriteAt(f, at, s)) = at + Len(s)
           /\ \A i \in 1..(at + Len(s)) :
                WriteAt(f, at, s)[i] = IF i > at THEN s[i - at] ELSE IF i <= Len(f) THEN f[i] ELSE 0
<1>1. \A i \in 1..(at + Len(s)) :
        (IF i > at THEN s[i - at] ELSE IF i <= Len(f) THEN f[i] ELSE 0) \in Byte
    <2> TAKE i \in 1..(at + Len(s))
    <2>1. CASE i > at
        <3>1. i - at \in 1..Len(s)
            BY <2>1
        <3> QED BY <2>1, <3>1
    <2>2. CASE i <= at /\ i <= Len(f)
        BY <2>2
    <2>3. CASE i <= at /\ ~(i <= Len(f))
        BY <2>3 DEF Byte
    <2> QED BY <2>1, <2>2, <2>3
<1>2. at + Len(s) \in Nat
    OBVIOUS
<1> QED BY <1>1, <1>2 DEF WriteAt

\* The heart of both loops: counting leading zeros and writing what follows them
\* keeps the file equal to the data and the skips in range.
LEMMA SkipOrWriteKeeps ==
    ASSUME IInv, NEW size \in Nat, NEW zeros \in Nat, size <= Left, zeros <= size,
           SkipOrWrite(size, zeros), UNCHANGED data
    PROVE  /\ file' \in Seq(Byte) /\ pos' \in Nat /\ storedSkips' \in 0..UnsignedMax
           /\ handled' = handled + size /\ handled' \in 0..Len(data')
           /\ SkipsBounded' /\ FileIsData'
           /\ storedSkips' = 0 => pos' = Len(file')
<1> USE SparseAssumption
<1>1. /\ file \in Seq(Byte) /\ pos \in Nat /\ data \in Seq(Byte) /\ handled \in 0..Len(data)
      /\ storedSkips \in Nat /\ handled' = handled + size /\ handled' \in 0..Len(data) /\ data' = data
      /\ Len(data) \in Nat /\ Len(file) \in Nat /\ UnsignedMax \in Nat /\ GB \in Nat /\ MaxBuffer \in Nat
    BY SMTT(60) DEF IInv, TypeOK, SkipOrWrite, Left
<1>2. storedSkips + zeros + (Left - size) <= GB + MaxBuffer /\ Left' = Left - size /\ Left \in Nat
    BY <1>1 DEF IInv, SkipsBounded, Left
<1>3. U(storedSkips + zeros) = storedSkips + zeros /\ storedSkips + zeros <= UnsignedMax
    <2>1. storedSkips + zeros \in Nat /\ storedSkips + zeros <= UnsignedMax
        BY <1>1, <1>2
    <2> QED BY <2>1, USmall
<1>4. CASE zeros = size
    <2>1. storedSkips' = storedSkips + zeros /\ file' = file /\ pos' = pos
        BY <1>3, <1>4 DEF SkipOrWrite
    <2>2. SkipsBounded'
        BY <1>1, <1>2, <1>4, <2>1 DEF SkipsBounded
    <2>3. FileIsData'
        <3>1. pos' + storedSkips' = handled' /\ Len(file') <= pos'
            BY <1>1, <1>4, <2>1 DEF IInv, FileIsData
        <3>2. ASSUME NEW i \in 1..handled' PROVE data'[i] = IF i <= Len(file') THEN file'[i] ELSE 0
            <4>1. CASE i <= handled
                BY <1>1, <2>1, <4>1 DEF IInv, FileIsData
            <4>2. CASE i > handled
                <5>1. data[i] = 0
                    BY <1>1, <1>4, <4>2 DEF SkipOrWrite, ZeroFrom
                <5>2. ~(i <= Len(file))
                    BY <1>1, <4>2 DEF IInv, FileIsData
                <5> QED BY <1>1, <2>1, <5>1, <5>2
            <4> QED BY <1>1, <4>1, <4>2
        <3> QED BY <3>1, <3>2 DEF FileIsData
    <2>4. storedSkips' = 0 => pos' = Len(file')
        BY <1>1, <2>1 DEF IInv, Between
    <2> QED BY <1>1, <1>3, <2>1, <2>2, <2>3, <2>4
<1>5. CASE zeros # size
    <2> DEFINE at == pos + storedSkips + zeros
               s == Slice(handled + zeros, handled + size)
    <2>1. /\ file' = WriteAt(file, at, s) /\ pos' = pos + (storedSkips + zeros) + (size - zeros)
          /\ storedSkips' = 0
        BY <1>1, <1>3, <1>5 DEF SkipOrWrite
    <2>2. s \in Seq(Byte) /\ Len(s) = size - zeros
          /\ \A i \in 1..(size - zeros) : s[i] = data[handled + zeros + i]
        <3>1. (handled + size) - (handled + zeros) = size - zeros /\ size - zeros \in Nat
            BY <1>1
        <3>2. s = [i \in 1..(size - zeros) |-> data[handled + zeros + i]]
            BY <3>1 DEF Slice
        <3>3. \A i \in 1..(size - zeros) : data[handled + zeros + i] \in Byte
            <4> TAKE i \in 1..(size - zeros)
            <4>1. handled + zeros + i \in 1..Len(data)
                BY <1>1, <3>1 DEF Left
            <4> QED BY <1>1, <4>1
        <3> HIDE DEF s
        <3> QED BY <3>1, <3>2, <3>3
    <2>3. at = handled + zeros /\ at \in Nat /\ Len(file) <= at
        BY <1>1 DEF IInv, FileIsData
    <2> HIDE DEF at, s
    <2>4. /\ file' \in Seq(Byte) /\ Len(file') = handled + size
          /\ \A i \in 1..(handled + size) :
                file'[i] = IF i > at THEN s[i - at] ELSE IF i <= Len(file) THEN file[i] ELSE 0
        <3>1. at + Len(s) = handled + size
            BY <1>1, <2>2, <2>3
        <3>2. WriteAt(file, at, s) \in Seq(Byte)
          /\ Len(WriteAt(file, at, s)) = at + Len(s)
          /\ \A i \in 1..(at + Len(s)) : WriteAt(file, at, s)[i] =
                IF i > at THEN s[i - at] ELSE IF i <= Len(file) THEN file[i] ELSE 0
            <4>1. file \in Seq(Byte) /\ at \in Nat /\ s \in Seq(Byte) /\ Len(file) <= at
                BY <1>1, <2>2, <2>3
            <4> QED BY <4>1, WriteAtResult, SMTT(60)
        <3> QED BY <2>1, <3>1, <3>2
    <2>5. pos' = handled + size
        <3>1. pos + (storedSkips + zeros) + (size - zeros) = pos + storedSkips + size
            BY <1>1
        <3>2. pos + storedSkips = handled
            BY DEF IInv, FileIsData
        <3> QED BY <1>1, <2>1, <3>1, <3>2
    <2>6. FileIsData'
        <3>1. ASSUME NEW i \in 1..handled' PROVE data'[i] = IF i <= Len(file') THEN file'[i] ELSE 0
            <4>0. i \in 1..(handled + size) /\ i <= Len(file') /\ i \in Nat
                BY <1>1, <2>4, SMTT(60)
            <4>1. CASE i > at
                <5>1. i - at \in 1..(size - zeros) /\ handled + zeros + (i - at) = i
                    BY <1>1, <2>3, <4>0, <4>1
                <5>2. s[i - at] = data[i]
                    BY <2>2, <5>1
                <5> QED BY <1>1, <2>4, <4>0, <4>1, <5>2
            <4>2. CASE i <= at /\ i > handled
                <5>1. data[i] = 0
                    BY <1>1, <2>3, <4>2 DEF SkipOrWrite, ZeroFrom
                <5>2. ~(i > at) /\ ~(i <= Len(file))
                    BY <1>1, <2>3, <4>2 DEF IInv, FileIsData
                <5> QED BY <1>1, <2>4, <4>0, <5>1, <5>2
            <4>3. CASE i <= handled
                <5>1. ~(i > at)
                    BY <1>1, <2>3, <4>3
                <5>2. data[i] = IF i <= Len(file) THEN file[i] ELSE 0
                    BY <1>1, <4>0, <4>3 DEF IInv, FileIsData
                <5> QED BY <1>1, <2>4, <4>0, <5>1, <5>2
            <4> QED BY <1>1, <2>3, <4>0, <4>1, <4>2, <4>3
        <3> QED BY <1>1, <2>1, <2>4, <2>5, <3>1 DEF FileIsData
    <2>7. SkipsBounded'
        BY <1>1, <1>2, <2>1 DEF SkipsBounded
    <2> QED BY <1>1, <2>1, <2>4, <2>5, <2>6, <2>7
<1> QED BY <1>4, <1>5

\* A call of the writer.
LEMMA CallKeeps ==
    ASSUME IInv, NEW b \in Buffers, Call(b)
    PROVE  IInv'
<1> USE SparseAssumption
<1>1. b \in Seq(Byte) /\ Len(b) \in 1..MaxBuffer
    <2>1. PICK n \in 1..MaxBuffer : b \in [1..n -> Byte]
        BY DEF Buffers
    <2> QED BY <2>1
<1>2. /\ data' = data \o b /\ data' \in Seq(Byte) /\ Len(data') = Len(data) + Len(b)
      /\ \A i \in 1..Len(data) : data'[i] = data[i]
      /\ \A i \in 1..Len(b) : data'[Len(data) + i] = b[i]
    BY <1>1 DEF Call, IInv, TypeOK
<1>3. /\ file \in Seq(Byte) /\ pos \in Nat /\ storedSkips \in Nat /\ Len(data) \in Nat /\ Len(file) \in Nat
      /\ Len(b) \in Nat /\ handled = Len(data) /\ pos + storedSkips = handled /\ Len(file) <= pos
      /\ storedSkips <= GB + MaxBuffer /\ Len(b) <= MaxBuffer /\ sparse \in BOOLEAN /\ sparse' = sparse
    BY <1>1, SMTT(60) DEF Call, IInv, TypeOK, Between, FileIsData, SkipsBounded, Left
<1>4. CASE ~sparse
    <2>1. /\ file' = WriteAt(file, pos, b) /\ pos' = pos + Len(b) /\ handled' = Len(data')
          /\ storedSkips' = 0 /\ pc' = "idle" /\ storedSkips = 0
        BY <1>4 DEF Call, IInv, Between
    <2>2. /\ file' \in Seq(Byte) /\ Len(file') = pos + Len(b)
          /\ \A i \in 1..(pos + Len(b)) :
                file'[i] = IF i > pos THEN b[i - pos] ELSE IF i <= Len(file) THEN file[i] ELSE 0
        <3>1. WriteAt(file, pos, b) \in Seq(Byte)
          /\ Len(WriteAt(file, pos, b)) = pos + Len(b)
          /\ \A i \in 1..(pos + Len(b)) : WriteAt(file, pos, b)[i] =
                IF i > pos THEN b[i - pos] ELSE IF i <= Len(file) THEN file[i] ELSE 0
            BY <1>1, <1>3, WriteAtResult, SMTT(60)
        <3> QED BY <2>1, <3>1
    <2>3. pos = Len(data)
        BY <1>3, <2>1
    <2>4. ASSUME NEW i \in 1..handled' PROVE data'[i] = IF i <= Len(file') THEN file'[i] ELSE 0
        <3>1. i \in 1..(pos + Len(b)) /\ i <= Len(file')
            BY <1>2, <1>3, <2>1, <2>2, <2>3, SMTT(60)
        <3>2. CASE i > pos
            <4>1. i - pos \in 1..Len(b) /\ Len(data) + (i - pos) = i
                BY <1>3, <2>3, <3>1, <3>2
            <4> QED BY <1>2, <2>2, <3>1, <3>2, <4>1
        <3>3. CASE ~(i > pos)
            <4>1. i \in 1..Len(data)
                BY <1>3, <2>3, <3>1, <3>3
            <4> QED BY <1>2, <1>3, <2>2, <3>1, <3>3, <4>1 DEF IInv, FileIsData
        <3> QED BY <3>2, <3>3
    <2>5. TypeOK'
        BY <1>2, <1>3, <2>1, <2>2, SMTT(60) DEF TypeOK
    <2>6. SkipsBounded' /\ FileIsData' /\ Between'
        BY <1>2, <1>3, <2>1, <2>2, <2>3, <2>4, SMTT(60) DEF SkipsBounded, FileIsData, Between, Left
    <2> QED BY <2>5, <2>6 DEF IInv
<1>5. CASE sparse
    <2>1. file' = file /\ handled' = handled /\ pc' = "writing"
        BY <1>5 DEF Call
    <2>2. \/ storedSkips > GB /\ pos' = pos + GB /\ storedSkips' = storedSkips - GB
          \/ storedSkips <= GB /\ pos' = pos /\ storedSkips' = storedSkips
        BY <1>3, <1>5 DEF Call
    <2>3. TypeOK'
        BY <1>2, <1>3, <2>1, <2>2 DEF TypeOK, IInv
    <2>4. SkipsBounded'
        BY <1>2, <1>3, <2>1, <2>2 DEF SkipsBounded, Left
    <2>5. FileIsData'
        BY <1>2, <1>3, <2>1, <2>2, SMTT(60) DEF FileIsData, IInv
    <2>6. Between'
        BY <1>3, <1>5, <2>1, <2>2 DEF Between, IInv
    <2> QED BY <2>3, <2>4, <2>5, <2>6 DEF IInv
<1> QED BY <1>3, <1>4, <1>5

\* A round of the loop over segments.
LEMMA SegmentKeeps ==
    ASSUME IInv, Segment
    PROVE  IInv'
<1> USE SparseAssumption
<1>1. PICK segT \in 1..segmentSizeT, nb0T \in 0..segmentSizeT :
        segT * sizeT <= Left /\ nb0T <= segT /\ SkipOrWrite(segT * sizeT, nb0T * sizeT)
    BY DEF Segment
<1>2. segT * sizeT \in Nat /\ nb0T * sizeT \in Nat /\ nb0T * sizeT <= segT * sizeT
    BY <1>1
<1>3. sparse' = sparse /\ data' = data /\ pc' = pc /\ pc = "writing"
    BY DEF Segment
<1> DEFINE size == segT * sizeT  zeros == nb0T * sizeT
<1>4. size \in Nat /\ zeros \in Nat /\ size <= Left /\ zeros <= size /\ SkipOrWrite(size, zeros)
    BY <1>1, <1>2
<1> HIDE DEF size, zeros
<1>5. /\ file' \in Seq(Byte) /\ pos' \in Nat /\ storedSkips' \in 0..UnsignedMax
      /\ handled' \in 0..Len(data') /\ SkipsBounded' /\ FileIsData'
      /\ storedSkips' = 0 => pos' = Len(file')
    BY <1>3, <1>4, SkipOrWriteKeeps
<1> QED BY <1>3, <1>5 DEF IInv, TypeOK, Between

\* The tail of a call.
LEMMA RestKeeps ==
    ASSUME IInv, Rest
    PROVE  IInv'
<1> USE SparseAssumption
<1>0. Left \in Nat /\ Len(data) \in Nat /\ handled \in Nat
    BY SMTT(60) DEF IInv, TypeOK, Left
<1>1. PICK zeros \in 0..Left : SkipOrWrite(Left, zeros)
    BY DEF Rest
<1>2. sparse' = sparse /\ data' = data /\ pc' = "idle" /\ pc = "writing"
    BY DEF Rest
<1>3. /\ file' \in Seq(Byte) /\ pos' \in Nat /\ storedSkips' \in 0..UnsignedMax
      /\ handled' = handled + Left /\ handled' \in 0..Len(data') /\ SkipsBounded' /\ FileIsData'
      /\ storedSkips' = 0 => pos' = Len(file')
    BY <1>0, <1>1, <1>2, SkipOrWriteKeeps
<1>4. handled' = Len(data')
    BY <1>0, <1>2, <1>3 DEF Left
<1> QED BY <1>2, <1>3, <1>4 DEF IInv, TypeOK, Between

\* The end of a frame.
LEMMA FlushKeeps ==
    ASSUME IInv, Flush
    PROVE  IInv'
<1> USE SparseAssumption
<1>1. /\ file \in Seq(Byte) /\ pos \in Nat /\ storedSkips \in Nat /\ storedSkips > 0 /\ Len(file) \in Nat
      /\ handled \in Nat /\ pos + storedSkips = handled /\ Len(file) <= pos
      /\ pos' = pos + storedSkips /\ storedSkips' = 0 /\ handled' = handled /\ data' = data
      /\ sparse' = sparse /\ pc' = pc
    BY SMTT(60) DEF Flush, IInv, TypeOK, FileIsData
<1>2. <<0>> \in Seq(Byte) /\ Len(<<0>>) = 1 /\ <<0>>[1] = 0
    BY DEF Byte
<1> DEFINE at == pos + storedSkips - 1
<1>3. at \in Nat /\ Len(file) <= at /\ at + 1 = handled
    BY <1>1
<1>4. file' = WriteAt(file, at, <<0>>)
    BY DEF Flush
<1> HIDE DEF at
<1>5. /\ file' \in Seq(Byte) /\ Len(file') = handled
      /\ \A i \in 1..handled :
            file'[i] = IF i > at THEN <<0>>[i - at] ELSE IF i <= Len(file) THEN file[i] ELSE 0
    <2>1. WriteAt(file, at, <<0>>) \in Seq(Byte)
          /\ Len(WriteAt(file, at, <<0>>)) = at + Len(<<0>>)
          /\ \A i \in 1..(at + Len(<<0>>)) : WriteAt(file, at, <<0>>)[i] =
                IF i > at THEN <<0>>[i - at] ELSE IF i <= Len(file) THEN file[i] ELSE 0
        <3> DEFINE z == <<0>>
        <3>1. file \in Seq(Byte) /\ at \in Nat /\ z \in Seq(Byte) /\ Len(file) <= at
            BY <1>1, <1>2, <1>3
        <3> HIDE DEF z
        <3>2. WriteAt(file, at, z) \in Seq(Byte)
              /\ Len(WriteAt(file, at, z)) = at + Len(z)
              /\ \A i \in 1..(at + Len(z)) : WriteAt(file, at, z)[i] =
                    IF i > at THEN z[i - at] ELSE IF i <= Len(file) THEN file[i] ELSE 0
            BY <3>1, WriteAtResult, SMTT(60)
        <3> QED BY <3>2 DEF z
    <2> QED BY <1>2, <1>3, <1>4, <2>1
<1>6. ASSUME NEW i \in 1..handled' PROVE data'[i] = file'[i]
    <2>1. data[i] = IF i <= Len(file) THEN file[i] ELSE 0
        BY <1>1 DEF IInv, FileIsData
    <2>2. CASE i > at
        <3>1. i - at = 1 /\ ~(i <= Len(file))
            BY <1>1, <1>3, <2>2
        <3> QED BY <1>1, <1>2, <1>5, <2>1, <2>2, <3>1
    <2>3. CASE ~(i > at)
        BY <1>1, <1>5, <2>1, <2>3
    <2> QED BY <2>2, <2>3
<1>7. FileIsData'
    BY <1>1, <1>5, <1>6, SMTT(60) DEF FileIsData
<1>8. TypeOK'
    BY <1>1, <1>5, SMTT(60) DEF IInv, TypeOK
<1>9. SkipsBounded' /\ Between'
    BY <1>1, <1>5 DEF IInv, TypeOK, SkipsBounded, Between, Left
<1> QED BY <1>7, <1>8, <1>9 DEF IInv

\* Whatever the data, the buffers and the sizes of words and segments, the sparse
\* writer keeps its counter in range, its file equal to the data handled, and the
\* file complete, trailing zeros included, whenever no skip is pending.
THEOREM SparseWriteCorrect == Spec => [](TypeOK /\ SkipsBounded /\ FileIsData /\ CompleteAtEnd)
<1>1. Init => IInv
    <2> SUFFICES ASSUME Init PROVE IInv
        OBVIOUS
    <2> USE SparseAssumption
    <2>1. TypeOK
        BY DEF Init, TypeOK
    <2>2. SkipsBounded /\ FileIsData /\ Between
        BY DEF Init, SkipsBounded, FileIsData, Between, Left
    <2> QED BY <2>1, <2>2 DEF IInv
<1>2. IInv /\ [Next]_vars => IInv'
    <2> SUFFICES ASSUME IInv, [Next]_vars PROVE IInv'
        OBVIOUS
    <2>1. CASE \E b \in Buffers : Call(b)
        BY <2>1, CallKeeps
    <2>2. CASE Segment
        BY <2>2, SegmentKeeps
    <2>3. CASE Rest
        BY <2>3, RestKeeps
    <2>4. CASE Flush
        BY <2>4, FlushKeeps
    <2>5. CASE UNCHANGED vars
        BY <2>5 DEF vars, IInv, TypeOK, SkipsBounded, FileIsData, Between, Left
    <2> QED BY <2>1, <2>2, <2>3, <2>4, <2>5 DEF Next
<1>3. IInv => TypeOK /\ SkipsBounded /\ FileIsData /\ CompleteAtEnd
    <2> SUFFICES ASSUME IInv PROVE CompleteAtEnd
        BY DEF IInv
    <2> SUFFICES ASSUME pc = "idle", storedSkips = 0 PROVE file = data
        BY DEF CompleteAtEnd
    <2>1. Len(file) = Len(data) /\ file \in Seq(Byte) /\ data \in Seq(Byte)
        BY DEF IInv, TypeOK, Between, FileIsData
    <2>2. \A i \in 1..Len(data) : file[i] = data[i]
        BY <2>1 DEF IInv, TypeOK, Between, FileIsData
    <2> QED BY <2>1, <2>2
<1> QED BY <1>1, <1>2, <1>3, PTL DEF Spec
=============================================================================

------------------------------ MODULE PublishProofs ------------------------------
(***************************************************************************)
(* Each of the three programs implements Publish: hcpp through             *)
(* hccPutStr, hcc1 through hccWithTransactionalLineWriter, hcc-m1 line by  *)
(* line; for all sources, tables, files and numbers of faults, and         *)
(* wherever a program is stopped.                                          *)
(***************************************************************************)
EXTENDS PipelineProofs

(***************************************************************************)
(* Beginnings of texts.                                                    *)
(***************************************************************************)
\* A text is a beginning of what is appended to it.
LEMMA PrefixOfConcat ==
    ASSUME NEW s \in Text, NEW t \in Text
    PROVE  IsPrefix(s, s \o t) /\ s \o t \in Text
<1> USE DEF Text
<1>1. Len(s) \in Nat /\ Len(t) \in Nat /\ Len(s \o t) = Len(s) + Len(t) /\ s \o t \in Seq(Chars)
  OBVIOUS
<1>2. SubSeq(s \o t, 1, Len(s)) = SubSeq(s, 1, Len(s))
  <2>1. CASE Len(s) = 0
    <3>1. SubSeq(s \o t, 1, Len(s)) = <<>> /\ SubSeq(s, 1, Len(s)) = <<>>
      BY <2>1, SubSeqEmpty
    <3> QED BY <3>1
  <2>2. CASE Len(s) # 0
    <3>1. 1 \in 1..Len(s) /\ Len(s) \in 1..Len(s)
      BY <1>1, <2>2
    <3> QED BY <3>1, SubSeqOfConcat1
  <2> QED BY <2>1, <2>2
<1> QED BY <1>1, <1>2 DEF IsPrefix

\* A text is a beginning of itself.
LEMMA PrefixSelf == ASSUME NEW s \in Text PROVE IsPrefix(s, s)
BY DEF IsPrefix, Text

\* Appending nothing changes nothing.
LEMMA EmptyEnds == ASSUME NEW s \in Text PROVE s \o <<>> = s /\ <<>> \o s = s /\ <<>> \in Text
BY DEF Text

\* Concatenation of texts.
LEMMA JoinText ==
    ASSUME NEW a \in Text, NEW b \in Text
    PROVE  a \o b \in Text
BY DEF Text

(***************************************************************************)
(* Whatever a program does, files hold texts, and a program writes only    *)
(* the files it may.                                                       *)
(***************************************************************************)
\* A step that changes only the files of the running program.
OwnFiles ==
    /\ disk' \in [Files -> Text]
    /\ \A f \in Files \ Writes : disk'[f] = disk[f]

\* What a write that is given up leaves: nothing more, or all that was kept back.
LEMMA ExitFailureDisk ==
    ASSUME FileInv, disk \in [Files -> Text], stage # "hcc-m1", hcc_exit_failure
    PROVE  /\ OwnFiles
           /\ \A f \in Files : \/ disk'[f] = disk[f]
                               \/ disk'[f] = disk[f] \o (OnItsWay(f) \o KeptOf(f))
<1>1. CASE disk' = disk
  BY <1>1 DEF OwnFiles
<1>2. CASE disk' = [f \in Files |-> disk[f] \o AtExit(f)]
  <2>1. ASSUME NEW f \in Files
        PROVE  /\ disk'[f] = disk[f] \o AtExit(f) /\ AtExit(f) = OnItsWay(f) \o KeptOf(f)
               /\ AtExit(f) \in Text /\ disk[f] \in Text
    BY <1>2, AtExitIs DEF FileInv
  <2>2. ASSUME NEW f \in Files PROVE disk[f] \o AtExit(f) \in Text
    BY <2>1, JoinText
  <2>3. ASSUME NEW f \in Files \ Writes PROVE disk'[f] = disk[f]
    <3>1. OnItsWay(f) = <<>> /\ KeptOf(f) = <<>>
      BY NothingForOthers DEF FileInv
    <3>2. <<>> \o <<>> = <<>>
      OBVIOUS
    <3>3. disk'[f] = disk[f] \o <<>> /\ disk[f] \in Text
      BY <2>1, <3>1, <3>2
    <3> QED BY <3>3, EmptyEnds
  <2>4. disk' \in [Files -> Text]
    BY <1>2, <2>2
  <2> QED BY <2>1, <2>3, <2>4 DEF OwnFiles
<1> QED BY <1>1, <1>2 DEF hcc_exit_failure

\* One turn of the loop of checked_write.
LEMMA WriteDisk ==
    ASSUME FileInv, disk \in [Files -> Text], stage # "hcc-m1", exited = "no", out.rest # <<>>,
           NEW n \in WriteResults, checked_write(n)
    PROVE  /\ OwnFiles
           /\ \/ hcc_exit_failure
              \/ \E a, b \in Text :
                    /\ out.rest = a \o b /\ out' = [file |-> out.file, rest |-> b] /\ exited' = exited
                    /\ \A f \in Files : disk'[f] = IF f = out.file THEN disk[f] \o a ELSE disk[f]
<1>1. CASE n <= 0
  <2>1. hcc_exit_failure
    BY <1>1 DEF checked_write, output_failure
  <2> QED BY <2>1, ExitFailureDisk
<1>2. CASE ~(n <= 0)
  <2>1. /\ disk' = [disk EXCEPT ![out.file] = @ \o SubSeq(out.rest, 1, n)]
        /\ out' = [out EXCEPT !.rest = SubSeq(@, n + 1, Len(@))]
        /\ exited' = exited
    BY <1>2 DEF checked_write
  <2> DEFINE a == SubSeq(out.rest, 1, n)
             b == SubSeq(out.rest, n + 1, Len(out.rest))
  <2>2. out.rest \in Text /\ n \in 1..Len(out.rest)
    <3>1. out.rest \in Text /\ Len(out.rest) \in Nat /\ Len(out.rest) # 0
      BY DEF FileInv, FileTypes, Text
    <3>2. n \in {-1, 0, 1, Len(out.rest)}
      BY DEF WriteResults
    <3> QED BY <1>2, <3>1, <3>2
  <2>3. a \in Text /\ b \in Text /\ out.rest = a \o b
    BY <2>2, SplitText
  <2>4. out' = [file |-> out.file, rest |-> b]
    BY <2>1 DEF FileInv, FileTypes
  <2> HIDE DEF b
  <2>5. disk' = [disk EXCEPT ![out.file] = disk[out.file] \o a]
    BY <2>1
  <2> HIDE DEF a
  <2>6. out.file \in {NoFile} \cup Writes
    BY DEF FileInv, FileTypes
  <2>7. \A f \in Files : disk'[f] = IF f = out.file THEN disk[f] \o a ELSE disk[f]
    BY <2>5
  <2>8. ASSUME NEW f \in Files PROVE disk'[f] \in Text
    <3>1. disk[f] \in Text
      OBVIOUS
    <3>2. disk[f] \o a \in Text
      BY <2>3, <3>1, JoinText
    <3> QED BY <2>7, <3>1, <3>2
  <2>9. disk' = [f \in Files |-> disk'[f]]
    BY <2>5
  <2>10. disk' \in [Files -> Text]
    BY <2>8, <2>9
  <2>11. \A f \in Files \ Writes : disk'[f] = disk[f]
    BY <2>6, <2>7, WritesAre
  <2> QED BY <2>1, <2>3, <2>4, <2>7, <2>10, <2>11 DEF OwnFiles
<1> QED BY <1>1, <1>2

\* hcc_open_write empties the file it opens.
LEMMA OpenDisk ==
    ASSUME disk \in [Files -> Text], NEW f \in Opens, hcc_open_write(f)
    PROVE  OwnFiles
<1>1. f \in Writes /\ <<>> \in Text
  BY WritesAre DEF Text
<1>2. disk' = disk \/ disk' = [disk EXCEPT ![f] = <<>>]
  BY DEF hcc_open_write
<1> QED BY <1>1, <1>2 DEF OwnFiles

\* A step that leaves the files alone.
LEMMA SameDisk == ASSUME disk \in [Files -> Text], disk' = disk PROVE OwnFiles
BY DEF OwnFiles

\* Every step of hcpp and hcc1.
LEMMA RunningDisk ==
    ASSUME PipeInv, disk \in [Files -> Text], Running
    PROVE  OwnFiles
<1>1. CASE disk' = disk
  BY <1>1, SameDisk
<1>2. CASE stage # "hcc-m1" /\ hcc_exit_failure
  BY <1>2, ExitFailureDisk DEF PipeInv
<1>3. CASE stage = "hcpp" /\ (Hcpp \/ hccExitSuccess)
  <2>1. disk' = disk \/ hcc_exit_failure
    BY <1>3 DEF Hcpp, CppRead, CppRefuse, CppRender, hccBufferText, hccPutStr, hccExitSuccess,
        Reading, Io, die, hcc_exit_success, output_failure
  <2> QED BY <1>1, <1>2, <1>3, <2>1
<1>4. CASE stage = "hcc1" /\ hccWithOpenWriteFile
  <2>1. pc = "same" /\ ret = 1 /\ ~SamePath /\ hcc_open_write(FileAt(path))
    BY <1>4 DEF hccWithOpenWriteFile
  <2>2. FileAt(path) \in Opens
    BY <1>4, <2>1, OutputIsOwn
  <2> DEFINE f == FileAt(path)
  <2>3. f \in Opens /\ hcc_open_write(f)
    BY <2>1, <2>2
  <2> HIDE DEF f
  <2> QED BY <2>3, OpenDisk
<1>5. CASE stage = "hcc1" /\ ~hccWithOpenWriteFile /\ (Hcc1 \/ hccExitSuccess)
  <2>1. CASE Cc1Write
    BY <1>1, <1>2, <1>5, <2>1 DEF Cc1Write, hcc_obuf_write, output_failure
  <2>2. CASE Cc1Flush
    BY <1>1, <1>2, <1>5, <2>2 DEF Cc1Flush, hcc_handle_flush, output_failure
  <2>3. CASE Cc1Close
    BY <1>1, <1>2, <1>5, <2>3 DEF Cc1Close, hcc_close, output_failure
  <2>4. CASE ~Cc1Write /\ ~Cc1Flush /\ ~Cc1Close
    <3>1. disk' = disk \/ hcc_exit_failure
      BY <1>5, <2>4 DEF Hcc1, Cc1Read, Cc1Refuse, Cc1Parse, Cc1SamePath, Cc1NotOpened,
          hccWithObuf, hccWriteTransactionLine, Cc1Lowered, Cc1Free, Cc1Die, hccExitSuccess,
          Reading, Io, die, hcc_exit_success, output_failure
    <3> QED BY <1>1, <1>2, <1>5, <3>1
  <2> QED BY <2>1, <2>2, <2>3, <2>4
<1>6. CASE HsWriting
  <2>1. stage # "hcc-m1" /\ exited = "no" /\ out.rest # <<>>
    BY <1>6 DEF HsWriting, Writing
  <2>2. PICK n \in WriteResults : checked_write(n)
    BY <1>6 DEF HsWriting, Writing
  <2> QED BY <2>1, <2>2, WriteDisk DEF PipeInv
<1> QED BY <1>3, <1>4, <1>5, <1>6 DEF Running

\* Every call of a client.
LEMMA CallingDisk ==
    ASSUME PipeInv, disk \in [Files -> Text], Calling
    PROVE  OwnFiles
<1>1. CASE disk' = disk
  BY <1>1, SameDisk
<1>0. stage = "client" /\ Opens = ClientFiles
  BY DEF Calling, Opens
<1>2. CASE hcc_exit_failure
  BY <1>0, <1>2, ExitFailureDisk DEF PipeInv
<1>3. CASE ClientOpen
  BY <1>0, <1>3, OpenDisk DEF ClientOpen
<1>4. CASE ClientObuf
  BY <1>1, <1>4 DEF ClientObuf
<1>5. CASE ClientWrite
  BY <1>1, <1>2, <1>5 DEF ClientWrite, hcc_obuf_write, output_failure
<1>6. CASE ClientFlush
  BY <1>1, <1>2, <1>6 DEF ClientFlush, hcc_handle_flush, output_failure
<1>7. CASE ClientClose
  BY <1>1, <1>2, <1>7 DEF ClientClose, hcc_close, output_failure
<1>8. CASE Writing
  <2>1. stage # "hcc-m1" /\ exited = "no" /\ out.rest # <<>>
    BY <1>0, <1>8 DEF Writing
  <2>2. PICK n \in WriteResults : checked_write(n)
    BY <1>8 DEF Writing
  <2> QED BY <2>1, <2>2, WriteDisk DEF PipeInv
<1> QED BY <1>3, <1>4, <1>5, <1>6, <1>7, <1>8 DEF Calling, Client

(***************************************************************************)
(* The lines of a text.                                                    *)
(***************************************************************************)
\* The end of a text, from its m-th character on.
LEMMA RestOfText ==
    ASSUME NEW t \in Text, NEW m \in Nat \ {0}
    PROVE  /\ SubSeq(t, m, Len(t)) \in Text
           /\ Len(SubSeq(t, m, Len(t))) = IF m <= Len(t) THEN Len(t) - m + 1 ELSE 0
           /\ \A i \in 1..(Len(t) - m + 1) : SubSeq(t, m, Len(t))[i] = t[m + i - 1]
<1>1. t \in Seq(Chars) /\ Len(t) \in Int /\ m \in Int
  BY DEF Text
<1>2. \A i \in m..Len(t) : t[i] \in Chars
  BY <1>1
<1>3. /\ SubSeq(t, m, Len(t)) \in Seq(Chars)
      /\ Len(SubSeq(t, m, Len(t))) = IF m <= Len(t) THEN Len(t) - m + 1 ELSE 0
      /\ \A i \in 1..(Len(t) - m + 1) : SubSeq(t, m, Len(t))[i] = t[m + i - 1]
  BY <1>1, <1>2, SubSeqProperties
<1> QED BY <1>3 DEF Text

\* The first line ends within the text.
LEMMA LineEndRange == ASSUME NEW t \in Text PROVE LineEnd(t) \in 0..Len(t)
<1> DEFINE s == t \o <<"nl">>
           I == {i \in 1..Len(s) : s[i] = "nl"}
<1>1. "nl" \in Chars
  BY LinesAssumption
<1>2. Len(t) \in Nat /\ Len(s) = Len(t) + 1 /\ s[Len(t) + 1] = "nl"
  BY <1>1 DEF Text
<1> HIDE DEF s
<1>3. Len(t) + 1 \in I /\ I \subseteq Nat
  BY <1>2
<1>4. Min(I) \in I
  <2> HIDE DEF I
  <2> QED BY <1>3, LeastNatural
<1>5. LineEnd(t) = Min(I) - 1
  <2>1. I # {}
    <3> HIDE DEF I
    <3> QED BY <1>3
  <2>2. LineEnd(t) = (IF I # {} THEN Min(I) ELSE 0) - 1
    BY DEF LineEnd, SelectInSeq, s
  <2> QED BY <2>1, <2>2
<1>6. Min(I) \in 1..(Len(t) + 1)
  BY <1>2, <1>4
<1> QED BY <1>2, <1>5, <1>6

\* A line is a text.
LEMMA LineType == ASSUME NEW t \in Text PROVE LineOf(t) \in Text
<1> DEFINE n == LineEnd(t)
           ss == [i \in 1..n |-> IF t[i] = "cr" THEN <<>> ELSE <<t[i]>>]
<1>1. n \in Nat /\ \A i \in 1..n : t[i] \in Chars
  <2>1. n \in 0..Len(t) /\ Len(t) \in Nat /\ \A i \in 1..Len(t) : t[i] \in Chars
    BY LineEndRange DEF Text
  <2> QED BY <2>1
<1> HIDE DEF n
<1>2. ss \in [1..n -> Seq(Chars)]
  <2>1. \A c \in Chars : <<c>> \in Seq(Chars) /\ <<>> \in Seq(Chars)
    OBVIOUS
  <2> QED BY <1>1, <2>1
<1>3. ss \in Seq(Seq(Chars))
  <2> HIDE DEF ss
  <2> QED BY <1>1, <1>2
<1> HIDE DEF ss
<1>4. FlattenSeq(ss) \in Seq(Chars)
  BY <1>3, FlattenType
<1> QED BY <1>4 DEF LineOf, Text, ss, n

\* What follows the first line of a text.
AfterLine(t) == SubSeq(t, LineEnd(t) + 2, Len(t))

\* It is shorter than the text.
LEMMA AfterLineType ==
    ASSUME NEW t \in Text
    PROVE  AfterLine(t) \in Text /\ (t # <<>> => Len(AfterLine(t)) < Len(t))
<1>1. LineEnd(t) \in 0..Len(t) /\ Len(t) \in Nat /\ (t # <<>> => Len(t) # 0)
  BY LineEndRange DEF Text
<1>2. LineEnd(t) + 2 \in Nat \ {0}
  BY <1>1
<1>3. /\ AfterLine(t) \in Text
      /\ Len(AfterLine(t)) = IF LineEnd(t) + 2 <= Len(t) THEN Len(t) - (LineEnd(t) + 2) + 1 ELSE 0
  BY <1>2, RestOfText DEF AfterLine
<1> QED BY <1>1, <1>3

\* LinesOf is what its definition says.
LEMMA LinesOfIs ==
    /\ LinesOf \in [Text -> Seq(Text)]
    /\ \A t \in Text :
          LinesOf[t] = IF t = <<>> THEN <<>> ELSE <<LineOf(t)>> \o LinesOf[AfterLine(t)]
<1> DEFINE R == Seq(Text)
           cut == [t \in Text |-> AfterLine(t)]
           step == [p \in Text \X R |-> <<LineOf(p[1])>> \o p[2]]
           IsLines(f) == f = [t \in Text |-> IF t = <<>> THEN <<>>
                                ELSE <<LineOf(t)>> \o f[SubSeq(t, LineEnd(t) + 2, Len(t))]]
<1>1. step \in [Text \X R -> R]
  <2>1. ASSUME NEW t \in Text, NEW ls \in R PROVE <<LineOf(t)>> \o ls \in R
    BY LineType
  <2> QED BY <2>1
<1>2. \A t \in Text : t # <<>> => cut[t] \in Text /\ Len(cut[t]) < Len(t)
  BY AfterLineType
<1>3. <<>> \in R
  OBVIOUS
<1> HIDE DEF R, step, cut
<1>4. Shortens(cut, Chars) /\ step \in [Seq(Chars) \X R -> R]
  BY <1>1, <1>2 DEF Text, Shortens
<1>5. PICK f \in [Seq(Chars) -> R] : Recursive(f, Chars, <<>>, cut, step)
  BY <1>3, <1>4, SeqRecursion
<1>6. ASSUME NEW t \in Text
      PROVE  f[t] = IF t = <<>> THEN <<>> ELSE <<LineOf(t)>> \o f[SubSeq(t, LineEnd(t) + 2, Len(t))]
  <2>1. f[t] = IF t = <<>> THEN <<>> ELSE step[<<t, f[cut[t]]>>]
    BY <1>5 DEF Recursive, Text
  <2>2. cut[t] \in Text /\ cut[t] = SubSeq(t, LineEnd(t) + 2, Len(t))
    BY AfterLineType DEF cut, AfterLine
  <2>3. f[cut[t]] \in R
    BY <2>2 DEF Text
  <2>4. step[<<t, f[cut[t]]>>] = <<LineOf(t)>> \o f[cut[t]]
    BY <2>3 DEF step
  <2> QED BY <2>1, <2>2, <2>4
<1>7. IsLines(f)
  BY <1>6, <1>5 DEF Recursive, Text
<1>8. IsLines(LinesOf)
  <2>1. LinesOf = CHOOSE g : IsLines(g)
    BY Zenon DEF LinesOf
  <2> HIDE DEF IsLines
  <2> QED BY <1>7, <2>1, Zenon
<1>9. \A t \in Text : LinesOf[t] = IF t = <<>> THEN <<>> ELSE <<LineOf(t)>> \o LinesOf[AfterLine(t)]
  BY <1>8 DEF AfterLine
<1>10. \A t \in Text : f[t] = IF t = <<>> THEN <<>> ELSE <<LineOf(t)>> \o f[AfterLine(t)]
  BY <1>6 DEF AfterLine
<1> HIDE DEF IsLines
<1>11. \A t \in Text : LinesOf[t] = f[t]
  <2>1. <<>> \in Text
    BY DEF Text
  <2>2. LinesOf[<<>>] = f[<<>>]
    BY <1>9, <1>10, <2>1
  <2>3. \A t \in Text : t # <<>> /\ LinesOf[cut[t]] = f[cut[t]] => LinesOf[t] = f[t]
    BY <1>9, <1>10 DEF cut
  <2>4. AgreeBy(LinesOf, f, cut, Chars)
    BY <2>2, <2>3 DEF Text, AgreeBy
  <2>5. \A t \in Seq(Chars) : LinesOf[t] = f[t]
    BY <1>4, <2>4, SeqAgree
  <2> QED BY <2>5 DEF Text
<1>12. LinesOf = [t \in Text |-> LinesOf[t]]
  BY <1>8 DEF IsLines
<1>13. LinesOf \in [Text -> R]
  BY <1>11, <1>12 DEF Text
<1> QED BY <1>9, <1>13 DEF R

(***************************************************************************)
(* The items of a file.                                                    *)
(***************************************************************************)
\* A line of an item as it is printed; c is the letter of the title.
LineText(c, line) ==
    CASE c = "D" -> Cells(line)
      [] c = "F" /\ line[1] = "L" -> <<>>
      [] c = "F" /\ line[1] # "L" -> line

\* The lines after the title, and the text of an item before its last line.
Bodies(ls) == [i \in 1..(Len(ls) - 1) |-> LineText(ls[1][1], ls[i + 1])]
OpenText(ls) == <<":", ls[1][2]>> \o FlattenSeq(Bodies(ls))

\* The lines of a data item are printed as characters.
LEMMA CellsType ==
    ASSUME NEW line \in Text, DataLine(line)
    PROVE  Cells(line) \in Text /\ line[2] \in Chars
<1>1. line[2] \in Chars /\ line[1] \in {"z", "b", "a"} /\ line # <<>>
  <2>1. Len(line) > 1 /\ line[1] \in {"z", "b", "a"} /\ line # <<>>
    BY DEF DataLine, Starts
  <2>2. \A i \in 1..Len(line) : line[i] \in Chars
    BY DEF Text
  <2>3. 2 \in 1..Len(line)
    BY <2>1 DEF Text
  <2> QED BY <2>1, <2>2, <2>3
<1>2. CASE line[1] = "z"
  <2> DEFINE k == SelectInSeq(Digits, LAMBDA d : d = line[2])
             I == {i \in 1..Len(Digits) : Digits[i] = line[2]}
  <2>1. k \in Nat
    <3>1. k = IF I # {} THEN Min(I) ELSE 0
      BY DEF SelectInSeq
    <3>2. I \subseteq Nat
      OBVIOUS
    <3> HIDE DEF I, k
    <3>3. I # {} => Min(I) \in I
      BY <3>2, LeastNatural
    <3> QED BY <3>1, <3>2, <3>3
  <2> HIDE DEF k
  <2>2. [i \in 1..k |-> "0"] \in Seq(Chars)
    <3>1. "0" \in Chars
      BY CharsAssumption
    <3>2. [i \in 1..k |-> "0"] \in [1..k -> Chars]
      BY <3>1
    <3> QED BY <2>1, <3>2
  <2>3. Cells(line) = [i \in 1..k |-> "0"]
    BY <1>1, <1>2 DEF Cells, Starts, k
  <2> QED BY <1>1, <2>2, <2>3 DEF Text
<1>3. CASE line[1] = "b"
  <2>1. Cells(line) = <<line[2]>>
    BY <1>1, <1>3 DEF Cells, Starts
  <2> QED BY <1>1, <2>1 DEF Text
<1>4. CASE line[1] = "a"
  <2>1. Cells(line) = <<"&">> /\ "&" \in Chars
    BY <1>1, <1>4, CharsAssumption DEF Cells, Starts
  <2> QED BY <1>1, <2>1 DEF Text
<1> QED BY <1>1, <1>2, <1>3, <1>4

\* A title with a name, and lines that can be printed after it.
Printable(ls) ==
    /\ Len(ls) >= 1 /\ Len(ls[1]) > 1 /\ ls[1][1] \in {"D", "F"}
    /\ \A i \in 2..Len(ls) : ls[1][1] = "D" => DataLine(ls[i])

\* Their text is one.
LEMMA OpenTextType ==
    ASSUME NEW ls \in Seq(Text), Printable(ls)
    PROVE  /\ <<":", ls[1][2]>> \in Text
           /\ Bodies(ls) \in Seq(Text) /\ Len(Bodies(ls)) = Len(ls) - 1
           /\ OpenText(ls) \in Text
<1>1. ls[1] \in Text /\ Len(ls) \in Nat \ {0} /\ \A i \in 1..Len(ls) : ls[i] \in Text
  BY DEF Printable
<1>2. ls[1][2] \in Chars
  <2>1. 2 \in 1..Len(ls[1]) /\ \A i \in 1..Len(ls[1]) : ls[1][i] \in Chars
    BY <1>1 DEF Printable, Text
  <2> QED BY <2>1
<1>3. <<":", ls[1][2]>> \in Text
  <2>1. ":" \in Chars
    BY CharsAssumption
  <2> QED BY <1>2, <2>1 DEF Text
<1>4. ASSUME NEW i \in 1..(Len(ls) - 1) PROVE LineText(ls[1][1], ls[i + 1]) \in Text
  <2>1. ls[i + 1] \in Text /\ i + 1 \in 2..Len(ls)
    BY <1>1
  <2>2. CASE ls[1][1] = "D"
    BY <2>1, <2>2, CellsType DEF Printable, LineText
  <2>3. CASE ls[1][1] = "F"
    <3>1. LineText(ls[1][1], ls[i + 1]) = IF ls[i + 1][1] = "L" THEN <<>> ELSE ls[i + 1]
      BY <2>3 DEF LineText
    <3>2. <<>> \in Text
      BY DEF Text
    <3> QED BY <2>1, <3>1, <3>2
  <2> QED BY <2>2, <2>3 DEF Printable
<1>5. Bodies(ls) \in [1..(Len(ls) - 1) -> Text]
  BY <1>4 DEF Bodies
<1>6. Bodies(ls) \in Seq(Text) /\ Len(Bodies(ls)) = Len(ls) - 1
  BY <1>1, <1>5
<1>7. FlattenSeq(Bodies(ls)) \in Text
  BY <1>6, FlattenType DEF Text
<1> QED BY <1>3, <1>6, <1>7, JoinText DEF OpenText

\* One more line.
LEMMA OpenTextAppend ==
    ASSUME NEW ls \in Seq(Text), NEW line \in Text, Printable(Append(ls, line)), ls # <<>>
    PROVE  /\ Printable(ls)
           /\ OpenText(Append(ls, line)) = OpenText(ls) \o LineText(ls[1][1], line)
           /\ LineText(ls[1][1], line) \in Text
<1> DEFINE t == Append(ls, line)
           x == LineText(ls[1][1], line)
           n == Len(ls)
<1>1. /\ t \in Seq(Text) /\ n \in Nat \ {0} /\ Len(t) = n + 1 /\ t[n + 1] = line
      /\ \A i \in 1..n : t[i] = ls[i]
  OBVIOUS
<1> HIDE DEF t
<1>2. t[1] = ls[1] /\ Printable(t)
  BY <1>1 DEF t
<1>3. Printable(ls)
  <2>1. ASSUME NEW i \in 2..n PROVE ls[1][1] = "D" => DataLine(ls[i])
    <3>1. i \in 2..Len(t) /\ t[i] = ls[i]
      BY <1>1
    <3> QED BY <1>2, <3>1 DEF Printable
  <2> QED BY <1>1, <1>2, <2>1 DEF Printable
<1>4. Bodies(ls) \in Seq(Text) /\ Len(Bodies(ls)) = n - 1 /\ <<":", ls[1][2]>> \in Text
  BY <1>3, OpenTextType
<1>5. Bodies(t) \in Seq(Text) /\ Len(Bodies(t)) = n
  <2>1. Bodies(t) \in Seq(Text) /\ Len(Bodies(t)) = Len(t) - 1
    BY <1>1, <1>2, OpenTextType
  <2> QED BY <1>1, <2>1
<1>6. \A i \in 1..n : Bodies(t)[i] = LineText(ls[1][1], t[i + 1])
  BY <1>1, <1>2 DEF Bodies
<1>7. \A i \in 1..(n - 1) : Bodies(ls)[i] = LineText(ls[1][1], ls[i + 1])
  BY DEF Bodies
<1>8. Bodies(t)[n] = x /\ x \in Text
  <2>1. n \in 1..n
    BY <1>1
  <2>2. Bodies(t)[n] = LineText(ls[1][1], t[n + 1])
    BY <1>6, <2>1
  <2>3. Bodies(t)[n] \in Text
    BY <1>5, <2>1
  <2> QED BY <1>1, <2>2, <2>3
<1>9. \A i \in 1..(n - 1) : Bodies(t)[i] = Bodies(ls)[i]
  <2> SUFFICES ASSUME NEW i \in 1..(n - 1) PROVE Bodies(t)[i] = Bodies(ls)[i]
    OBVIOUS
  <2>1. i \in 1..n /\ i + 1 \in 1..n
    BY <1>1
  <2> QED BY <1>1, <1>6, <1>7, <2>1
<1> HIDE DEF x
<1>10. Bodies(t) = Append(Bodies(ls), x)
  <2> DEFINE a == Bodies(t)
             b == Bodies(ls)
  <2>1. a \in Seq(Text) /\ b \in Seq(Text) /\ Len(a) = n /\ Len(b) = n - 1 /\ a[n] = x
        /\ \A i \in 1..(n - 1) : a[i] = b[i]
    BY <1>4, <1>5, <1>8, <1>9
  <2> HIDE DEF a, b, n
  <2>2. Append(b, x) \in Seq(Text) /\ Len(Append(b, x)) = n
        /\ \A i \in 1..n : Append(b, x)[i] = IF i = n THEN x ELSE b[i]
    BY <1>1, <1>8, <2>1
  <2>3. \A i \in 1..n : a[i] = Append(b, x)[i]
    <3> SUFFICES ASSUME NEW i \in 1..n PROVE a[i] = Append(b, x)[i]
      OBVIOUS
    <3>1. i = n \/ i \in 1..(n - 1)
      BY <1>1
    <3> QED BY <2>1, <2>2, <3>1
  <2> DEFINE e == Append(b, x)
  <2> HIDE DEF e
  <2>4. e \in Seq(Text) /\ Len(e) = Len(a) /\ \A i \in 1..Len(a) : a[i] = e[i]
    BY <2>1, <2>2, <2>3 DEF e
  <2>5. a = e
    BY <2>1, <2>4, SeqEqual
  <2> QED BY <2>5 DEF a, b, e
<1>11. FlattenSeq(Bodies(t)) = FlattenSeq(Bodies(ls)) \o x
  BY <1>4, <1>8, <1>10, FlattenAppend DEF Text
<1>12. FlattenSeq(Bodies(ls)) \in Text
  BY <1>4, FlattenType DEF Text
<1>13. OpenText(t) = <<":", ls[1][2]>> \o (FlattenSeq(Bodies(ls)) \o x)
  BY <1>2, <1>11 DEF OpenText
<1>14. OpenText(t) = OpenText(ls) \o x
  <2> DEFINE a == <<":", ls[1][2]>>
             b == FlattenSeq(Bodies(ls))
  <2>1. a \in Text /\ b \in Text /\ x \in Text /\ OpenText(t) = a \o (b \o x) /\ OpenText(ls) = a \o b
    BY <1>4, <1>8, <1>12, <1>13 DEF OpenText
  <2> HIDE DEF a, b
  <2>2. (a \o b) \o x = a \o (b \o x)
    <3>1. Associates(a, b, x)
      BY <2>1, TextAssociates
    <3> QED BY <3>1 DEF Associates
  <2> QED BY <2>1, <2>2
<1> QED BY <1>3, <1>8, <1>14 DEF t, x

\* The text of an item is that of its lines before the last one.
LEMMA ItemTextIs ==
    ASSUME NEW ls \in Seq(Text), ls # <<>>, ls[1] # <<>>
    PROVE  ItemText(Append(ls, <<"E">>)) = OpenText(ls)
<1> DEFINE t == Append(ls, <<"E">>)
           n == Len(ls)
<1>1. n \in Nat \ {0} /\ Len(t) = n + 1 /\ \A i \in 1..n : t[i] = ls[i]
  OBVIOUS
<1>2. t # <<<<>>>>
  <2>1. 1 \in 1..n /\ t[1] = ls[1]
    BY <1>1
  <2>2. <<<<>>>>[1] = <<>>
    OBVIOUS
  <2> HIDE DEF t
  <2> QED BY <2>1, <2>2
<1> HIDE DEF t
<1>3. t[1] = ls[1] /\ Len(t) - 2 = n - 1
  BY <1>1
<1>4. ItemText(t) = <<":", t[1][2]>> \o FlattenSeq([i \in 1..(Len(t) - 2) |-> LineText(t[1][1], t[i + 1])])
  BY <1>2 DEF ItemText, LineText
<1>5. \A i \in 1..(n - 1) : t[i + 1] = ls[i + 1]
  BY <1>1
<1>6. [i \in 1..(Len(t) - 2) |-> LineText(t[1][1], t[i + 1])] = Bodies(ls)
  BY <1>3, <1>5 DEF Bodies
<1> QED BY <1>3, <1>4, <1>6 DEF OpenText, t

\* The lines of an item of which the last has not been read: as parse_ir_data_item,
\* parse_ir_function and parse_ir_block have taken them, and their text.
Titled(ls, c) == Len(ls) >= 1 /\ Len(ls[1]) > 1 /\ ls[1][1] = c

BlockLines(ls) ==
    \A i \in 2..Len(ls) :
        \/ Starts(ls[i], "L") /\ Len(ls[i]) > 1 /\ (i = 2 \/ Starts(ls[i - 1], "R"))
        \/ (Starts(ls[i], "R") \/ Starts(ls[i], "k")) /\ i > 2
             /\ (Starts(ls[i - 1], "L") \/ Starts(ls[i - 1], "k"))

Modes == {"top", "data", "function", "block"}

OpenItem(ls, m, t) ==
    /\ \A i \in 1..Len(ls) : Len(ls[i]) < LineCap
    /\ m = "top" => ls = <<>> /\ t = <<>>
    /\ m = "data" => Titled(ls, "D") /\ \A i \in 2..Len(ls) : DataLine(ls[i])
    /\ m \in {"function", "block"} => Titled(ls, "F") /\ BlockLines(ls)
    /\ m = "function" => Len(ls) = 1 \/ Starts(ls[Len(ls)], "R")
    /\ m = "block" => Len(ls) > 1 /\ (Starts(ls[Len(ls)], "L") \/ Starts(ls[Len(ls)], "k"))
    /\ m # "top" => t = OpenText(ls)

\* Such lines can be printed.
LEMMA OpenPrintable ==
    ASSUME NEW ls, NEW m \in Modes \ {"top"}, NEW t, OpenItem(ls, m, t)
    PROVE  Printable(ls)
BY DEF Printable, OpenItem, Titled, Modes

\* No lines that have been read are an item before the last one.
LEMMA NoItemYet ==
    ASSUME NEW ls \in Seq(Text), NEW m \in Modes, NEW t, OpenItem(ls, m, t), NEW n \in 1..Len(ls)
    PROVE  ~IsItem(SubSeq(ls, 1, n))
<1> DEFINE p == SubSeq(ls, 1, n)
<1>1. n \in Nat /\ Len(p) = n /\ \A i \in 1..n : p[i] = ls[i]
  OBVIOUS
<1>2. m # "top"
  BY DEF OpenItem
<1>3. Len(ls[1]) > 1 /\ 1 \in 1..n
  BY <1>2, <1>1 DEF OpenItem, Titled, Modes
<1> HIDE DEF p
<1>4. p # <<<<>>>>
  <2>1. p[1] = ls[1]
    BY <1>1, <1>3
  <2>2. <<<<>>>>[1] = <<>> /\ Len(<<>>) = 0
    OBVIOUS
  <2> QED BY <1>3, <2>1, <2>2
<1> SUFFICES ASSUME IsItem(p) PROVE FALSE
  BY DEF p
<1>5. n >= 2 /\ p[n] = <<"E">>
  <2>1. IsData(p) \/ IsFunction(p)
    BY <1>4 DEF IsItem
  <2>2. CASE IsData(p)
    BY <1>1, <2>2 DEF IsData, Last
  <2>3. CASE IsFunction(p)
    BY <1>1, <2>3 DEF IsFunction
  <2> QED BY <2>1, <2>2, <2>3
<1>6. ls[n] = <<"E">> /\ n \in 2..Len(ls)
  BY <1>1, <1>5
<1>7. Len(<<"E">>) = 1 /\ <<"E">>[1] = "E"
  OBVIOUS
<1>8. CASE m = "data"
  <2>1. DataLine(ls[n])
    BY <1>6, <1>8 DEF OpenItem
  <2> QED BY <1>6, <1>7, <2>1 DEF DataLine
<1>9. CASE m \in {"function", "block"}
  <2>1. BlockLines(ls)
    BY <1>9 DEF OpenItem
  <2>2. Starts(ls[n], "L") \/ Starts(ls[n], "R") \/ Starts(ls[n], "k")
    BY <1>6, <2>1 DEF BlockLines
  <2> QED BY <1>6, <1>7, <2>2 DEF Starts
<1> QED BY <1>2, <1>8, <1>9 DEF Modes

\* translate_ir_module: a title begins an item, an empty line is one.
LEMMA TopTaken ==
    ASSUME NEW line \in Text, Len(line) < LineCap, TopLine(line).mode # "bad"
    PROVE  /\ TopLine(line).mode \in Modes /\ TopLine(line).text \in Text
           /\ TopLine(line).mode # "top" => OpenItem(<<line>>, TopLine(line).mode, TopLine(line).text)
           /\ TopLine(line).mode = "top" =>
                 /\ IsItem(<<line>>) /\ TopLine(line).text = <<>> /\ ItemText(<<line>>) = <<>>
<1> DEFINE ls == <<line>>
<1>1. ls \in Seq(Text) /\ Len(ls) = 1 /\ ls[1] = line
  OBVIOUS
<1>2. ASSUME NEW c \in {"D", "F"}, Starts(line, c), Len(line) > 1
      PROVE  /\ OpenText(ls) = <<":", line[2]>> /\ OpenText(ls) \in Text /\ Titled(ls, c)
             /\ \A i \in 1..Len(ls) : Len(ls[i]) < LineCap
  <2> HIDE DEF ls
  <2>1. Titled(ls, c)
    BY <1>1, <1>2 DEF Titled, Starts
  <2>2. Printable(ls)
    BY <1>1, <1>2, <2>1 DEF Printable, Titled
  <2>3. Bodies(ls) \in Seq(Text) /\ Len(Bodies(ls)) = 0 /\ <<":", ls[1][2]>> \in Text /\ OpenText(ls) \in Text
    <3>1. Bodies(ls) \in Seq(Text) /\ Len(Bodies(ls)) = Len(ls) - 1 /\ <<":", ls[1][2]>> \in Text
          /\ OpenText(ls) \in Text
      BY <1>1, <2>2, OpenTextType
    <3> QED BY <1>1, <3>1
  <2>4. FlattenSeq(Bodies(ls)) = <<>>
    <3>1. Bodies(ls) \in Seq(Seq(Chars)) /\ \A i \in 1..Len(Bodies(ls)) : Bodies(ls)[i] = <<>>
      BY <2>3 DEF Text
    <3> QED BY <3>1, FlattenNone
  <2>5. OpenText(ls) = <<":", line[2]>>
    <3>1. OpenText(ls) = <<":", ls[1][2]>> \o <<>>
      BY <2>4 DEF OpenText
    <3> QED BY <1>1, <2>3, <3>1, EmptyEnds
  <2> QED BY <1>1, <2>1, <2>3, <2>5
<1>3. ~(Starts(line, "D") /\ Starts(line, "F"))
  BY DEF Starts
<1>4. ASSUME NEW i \in 2..Len(ls) PROVE FALSE
  BY <1>1
<1>5. CASE Starts(line, "D") /\ Len(line) > 1
  <2>1. TopLine(line).mode = "data" /\ TopLine(line).text = <<":", line[2]>>
    BY <1>5 DEF TopLine
  <2> HIDE DEF ls
  <2>2. OpenItem(ls, "data", <<":", line[2]>>)
    BY <1>2, <1>4, <1>5 DEF OpenItem
  <2>3. TopLine(line).text \in Text
    BY <1>2, <1>5, <2>1
  <2> QED BY <2>1, <2>2, <2>3 DEF Modes, ls
<1>6. CASE Starts(line, "F") /\ Len(line) > 1
  <2>1. TopLine(line).mode = "function" /\ TopLine(line).text = <<":", line[2]>>
    BY <1>3, <1>6 DEF TopLine
  <2> HIDE DEF ls
  <2>2. BlockLines(ls) /\ Len(ls) = 1
    BY <1>1, <1>4 DEF BlockLines
  <2>3. OpenItem(ls, "function", <<":", line[2]>>)
    BY <1>2, <1>6, <2>2 DEF OpenItem
  <2>4. TopLine(line).text \in Text
    BY <1>2, <1>6, <2>1
  <2> QED BY <2>1, <2>3, <2>4 DEF Modes, ls
<1>7. CASE ~(Starts(line, "D") /\ Len(line) > 1) /\ ~(Starts(line, "F") /\ Len(line) > 1)
  <2>1. TopLine(line).mode = "top" /\ TopLine(line).text = <<>> /\ line = <<>>
    BY <1>7 DEF TopLine
  <2>2. IsItem(<<line>>) /\ ItemText(<<line>>) = <<>>
    BY <2>1 DEF IsItem, ItemText
  <2>3. <<>> \in Text
    BY DEF Text
  <2> QED BY <2>1, <2>2, <2>3 DEF Modes
<1> QED BY <1>5, <1>6, <1>7

\* Facts about one more line.
LEMMA OneMore ==
    ASSUME NEW ls \in Seq(Text), NEW line \in Text
    PROVE  /\ Append(ls, line) \in Seq(Text) /\ Len(Append(ls, line)) = Len(ls) + 1
           /\ Append(ls, line)[Len(ls) + 1] = line
           /\ \A i \in 1..Len(ls) : Append(ls, line)[i] = ls[i]
           /\ \A i \in 1..Len(Append(ls, line)) : i \in 1..Len(ls) \/ i = Len(ls) + 1
           /\ Len(ls) \in Nat
OBVIOUS

\* parse_ir_data_item takes values, and "E" makes the lines an item.
LEMMA DataTaken ==
    ASSUME NEW ls \in Seq(Text), NEW t, OpenItem(ls, "data", t),
           NEW line \in Text, Len(line) < LineCap, DataItemLine(line).mode # "bad"
    PROVE  LET d == DataItemLine(line) IN
           /\ d.mode \in Modes /\ d.text \in Text /\ t \in Text
           /\ d.mode # "top" => OpenItem(Append(ls, line), d.mode, t \o d.text)
           /\ d.mode = "top" => IsItem(Append(ls, line)) /\ d.text = <<>> /\ ItemText(Append(ls, line)) = t
<1> DEFINE a == Append(ls, line)
           n == Len(ls)
<1>1. /\ a \in Seq(Text) /\ Len(a) = n + 1 /\ a[n + 1] = line /\ n \in Nat
      /\ \A i \in 1..n : a[i] = ls[i]
      /\ \A i \in 1..Len(a) : i \in 1..n \/ i = n + 1
  BY OneMore
<1>2. /\ Titled(ls, "D") /\ t = OpenText(ls) /\ n >= 1
      /\ \A i \in 2..n : DataLine(ls[i])
      /\ \A i \in 1..n : Len(ls[i]) < LineCap
  BY DEF OpenItem, Titled
<1>3. Printable(ls) /\ t \in Text
  <2>1. Printable(ls)
    BY OpenPrintable DEF Modes
  <2> QED BY <1>2, <2>1, OpenTextType
<1> HIDE DEF a
<1>4. Titled(a, "D")
  <2>1. a[1] = ls[1]
    BY <1>1, <1>2
  <2> QED BY <1>1, <1>2, <2>1 DEF Titled
<1>5. CASE line = <<"E">>
  <2>1. DataItemLine(line) = [mode |-> "top", text |-> <<>>]
    BY <1>5 DEF DataItemLine
  <2>2. IsItem(a)
    <3>1. \A i \in 1..Len(a) : Len(a[i]) < LineCap
      BY <1>1, <1>2
    <3>2. Last(a) = <<"E">>
      BY <1>1, <1>5 DEF Last
    <3>3. ASSUME NEW i \in 2..(Len(a) - 1) PROVE Len(a[i]) > 1 /\ a[i][1] \in {"z", "b", "a"}
      <4>1. i \in 2..n /\ a[i] = ls[i]
        BY <1>1
      <4>2. DataLine(a[i])
        BY <1>2, <4>1
      <4> QED BY <4>2 DEF DataLine, Starts
    <3>4. IsData(a)
      BY <1>1, <1>2, <1>4, <3>2, <3>3 DEF IsData, Titled
    <3> QED BY <3>1, <3>4 DEF IsItem
  <2>3. ItemText(a) = t
    <3>1. ls # <<>> /\ ls[1] # <<>>
      BY <1>2 DEF Titled
    <3> QED BY <1>2, <1>5, <3>1, ItemTextIs DEF a
  <2>4. <<>> \in Text
    BY DEF Text
  <2> QED BY <1>3, <2>1, <2>2, <2>3, <2>4 DEF a, Modes
<1>6. CASE line # <<"E">>
  <2>1. DataItemLine(line) = [mode |-> "data", text |-> Cells(line)] /\ DataLine(line)
    BY <1>6 DEF DataItemLine
  <2>2. Cells(line) \in Text
    BY <2>1, CellsType
  <2>3. \A i \in 1..Len(a) : Len(a[i]) < LineCap
    BY <1>1, <1>2
  <2>4. \A i \in 2..Len(a) : DataLine(a[i])
    BY <1>1, <1>2, <2>1
  <2>5. Printable(a)
    BY <1>4, <2>4 DEF Printable, Titled
  <2>6. OpenText(a) = t \o Cells(line)
    <3>1. ls # <<>>
      BY <1>2
    <3>2. OpenText(a) = OpenText(ls) \o LineText(ls[1][1], line)
      BY <2>5, <3>1, OpenTextAppend DEF a
    <3>3. LineText(ls[1][1], line) = Cells(line)
      BY <1>2 DEF LineText, Titled
    <3> QED BY <1>2, <3>2, <3>3
  <2>7. OpenItem(a, "data", t \o Cells(line))
    BY <1>4, <2>3, <2>4, <2>6 DEF OpenItem
  <2> QED BY <1>3, <2>1, <2>2, <2>7 DEF a, Modes
<1> QED BY <1>5, <1>6

\* A line added to the blocks of a function.
LEMMA BlockMore ==
    ASSUME NEW ls \in Seq(Text), Titled(ls, "F"), BlockLines(ls), \A i \in 1..Len(ls) : Len(ls[i]) < LineCap,
           NEW line \in Text, Len(line) < LineCap,
           \/ Starts(line, "L") /\ Len(line) > 1 /\ (Len(ls) = 1 \/ Starts(ls[Len(ls)], "R"))
           \/ (Starts(line, "R") \/ Starts(line, "k")) /\ Len(ls) > 1
                /\ (Starts(ls[Len(ls)], "L") \/ Starts(ls[Len(ls)], "k"))
    PROVE  LET a == Append(ls, line) IN
           /\ Titled(a, "F") /\ BlockLines(a) /\ Len(a) > 1 /\ a[Len(a)] = line
           /\ \A i \in 1..Len(a) : Len(a[i]) < LineCap
           /\ OpenText(a) = OpenText(ls) \o (IF line[1] = "L" THEN <<>> ELSE line)
<1> DEFINE a == Append(ls, line)
           n == Len(ls)
<1>1. /\ a \in Seq(Text) /\ Len(a) = n + 1 /\ a[n + 1] = line /\ n \in Nat
      /\ \A i \in 1..n : a[i] = ls[i]
      /\ \A i \in 1..Len(a) : i \in 1..n \/ i = n + 1
  BY OneMore
<1>2. n >= 1
  BY DEF Titled
<1> HIDE DEF a
<1>3. Titled(a, "F")
  <2>1. a[1] = ls[1]
    BY <1>1, <1>2
  <2> QED BY <1>1, <1>2, <2>1 DEF Titled
<1>4. BlockLines(a)
  <2> SUFFICES ASSUME NEW i \in 2..Len(a)
               PROVE  \/ Starts(a[i], "L") /\ Len(a[i]) > 1 /\ (i = 2 \/ Starts(a[i - 1], "R"))
                      \/ (Starts(a[i], "R") \/ Starts(a[i], "k")) /\ i > 2
                           /\ (Starts(a[i - 1], "L") \/ Starts(a[i - 1], "k"))
    BY DEF BlockLines
  <2>1. CASE i \in 2..n
    <3>1. a[i] = ls[i] /\ a[i - 1] = ls[i - 1]
      BY <1>1, <2>1
    <3> QED BY <2>1, <3>1 DEF BlockLines
  <2>2. CASE i = n + 1
    <3>0. n \in Nat
      BY <1>1
    <3>1. a[i] = line /\ i - 1 = n /\ a[n] = ls[n]
      BY <1>1, <1>2, <2>2
    <3>2. (i = 2 <=> n = 1) /\ (i > 2 <=> n > 1)
      <4> HIDE DEF n
      <4> QED BY <2>2, <3>0
    <3> QED BY <3>1, <3>2
  <2> QED BY <1>1, <2>1, <2>2
<1>5. \A i \in 1..Len(a) : Len(a[i]) < LineCap
  BY <1>1
<1>6. OpenText(a) = OpenText(ls) \o (IF line[1] = "L" THEN <<>> ELSE line)
  <2>1. Printable(a) /\ ls # <<>>
    BY <1>2, <1>3 DEF Printable, Titled
  <2>2. OpenText(a) = OpenText(ls) \o LineText(ls[1][1], line)
    BY <2>1, OpenTextAppend DEF a
  <2>3. LineText(ls[1][1], line) = IF line[1] = "L" THEN <<>> ELSE line
    BY DEF LineText, Titled
  <2> QED BY <2>2, <2>3
<1> QED BY <1>1, <1>2, <1>3, <1>4, <1>5, <1>6 DEF a

\* parse_ir_function takes the label of a block, and "E" makes the lines an item.
LEMMA FunctionTaken ==
    ASSUME NEW ls \in Seq(Text), NEW t, OpenItem(ls, "function", t),
           NEW line \in Text, Len(line) < LineCap, FunctionLine(line).mode # "bad"
    PROVE  LET d == FunctionLine(line) IN
           /\ d.mode \in Modes /\ d.text \in Text /\ t \in Text
           /\ d.mode # "top" => OpenItem(Append(ls, line), d.mode, t \o d.text)
           /\ d.mode = "top" => IsItem(Append(ls, line)) /\ d.text = <<>> /\ ItemText(Append(ls, line)) = t
<1> DEFINE a == Append(ls, line)
           n == Len(ls)
<1>1. /\ a \in Seq(Text) /\ Len(a) = n + 1 /\ a[n + 1] = line /\ n \in Nat
      /\ \A i \in 1..n : a[i] = ls[i]
      /\ \A i \in 1..Len(a) : i \in 1..n \/ i = n + 1
  BY OneMore
<1>2. /\ Titled(ls, "F") /\ BlockLines(ls) /\ t = OpenText(ls) /\ n >= 1
      /\ Len(ls) = 1 \/ Starts(ls[Len(ls)], "R")
      /\ \A i \in 1..n : Len(ls[i]) < LineCap
  BY DEF OpenItem, Titled
<1>3. t \in Text /\ <<>> \in Text
  <2>1. Printable(ls)
    BY OpenPrintable DEF Modes
  <2> QED BY <1>2, <2>1, OpenTextType, EmptyEnds
<1> HIDE DEF a
<1>4. CASE line = <<"E">>
  <2>1. FunctionLine(line) = [mode |-> "top", text |-> <<>>]
    BY <1>4 DEF FunctionLine
  <2>2. \A i \in 1..Len(a) : Len(a[i]) < LineCap
    BY <1>1, <1>2
  <2>3. \A i \in 2..n : a[i] # <<>> /\ a[i][1] \in {"L", "k", "R"} /\ (a[i][1] = "L" => Len(a[i]) > 1)
    <3> SUFFICES ASSUME NEW i \in 2..n
                 PROVE  a[i] # <<>> /\ a[i][1] \in {"L", "k", "R"} /\ (a[i][1] = "L" => Len(a[i]) > 1)
      OBVIOUS
    <3>1. a[i] = ls[i]
      BY <1>1
    <3>2. (Starts(ls[i], "L") /\ Len(ls[i]) > 1) \/ Starts(ls[i], "R") \/ Starts(ls[i], "k")
      BY <1>2 DEF BlockLines
    <3> QED BY <3>1, <3>2 DEF Starts
  <2>4. n > 1 => Starts(a[2], "L") /\ Starts(a[n], "R")
    <3> SUFFICES ASSUME n > 1 PROVE Starts(a[2], "L") /\ Starts(a[n], "R")
      OBVIOUS
    <3>1. 2 \in 2..n /\ a[2] = ls[2] /\ a[n] = ls[n]
      BY <1>1
    <3>2. Starts(ls[2], "L")
      BY <1>2, <3>1 DEF BlockLines
    <3> QED BY <1>1, <1>2, <3>1, <3>2
  <2>5. \A i \in 2..(n - 1) : a[i][1] = "R" <=> a[i + 1][1] = "L"
    <3> SUFFICES ASSUME NEW i \in 2..(n - 1) PROVE a[i][1] = "R" <=> a[i + 1][1] = "L"
      OBVIOUS
    <3>1. i + 1 \in 2..n /\ (i + 1) - 1 = i /\ i + 1 # 2 /\ a[i] = ls[i] /\ a[i + 1] = ls[i + 1]
      BY <1>1
    <3>2. \/ Starts(ls[i + 1], "L") /\ Starts(ls[i], "R")
          \/ (Starts(ls[i + 1], "R") \/ Starts(ls[i + 1], "k")) /\ (Starts(ls[i], "L") \/ Starts(ls[i], "k"))
      BY <1>2, <3>1 DEF BlockLines
    <3> QED BY <3>1, <3>2 DEF Starts
  <2>6. a[1] # <<>> /\ Len(a[1]) > 1 /\ a[1][1] = "F"
    <3>1. a[1] = ls[1]
      BY <1>1, <1>2
    <3> QED BY <1>2, <3>1 DEF Titled
  <2>7. IsFunction(a)
    <3> DEFINE Kind(i) == IF a[i] = <<>> THEN "" ELSE a[i][1]
    <3>1. \A i \in 2..n : Kind(i) = a[i][1]
      BY <2>3
    <3>2. Kind(1) = "F"
      BY <2>6
    <3>3. Len(a) - 1 = n /\ Len(a) - 2 = n - 1 /\ Len(a) >= 2 /\ (Len(a) > 2 <=> n > 1) /\ a[Len(a)] = <<"E">>
      BY <1>1, <1>2, <1>4
    <3>4. n > 1 => Kind(2) = "L" /\ Kind(n) = "R"
      BY <2>4 DEF Starts
    <3>5. \A i \in 2..n : Kind(i) \in {"L", "k", "R"} /\ (Kind(i) = "L" => Len(a[i]) > 1)
      BY <2>3, <3>1
    <3>6. \A i \in 2..(n - 1) : Kind(i) = "R" <=> Kind(i + 1) = "L"
      <4> SUFFICES ASSUME NEW i \in 2..(n - 1) PROVE Kind(i) = "R" <=> Kind(i + 1) = "L"
        OBVIOUS
      <4>1. i \in 2..n /\ i + 1 \in 2..n
        BY <1>1
      <4>2. Kind(i) = a[i][1] /\ Kind(i + 1) = a[i + 1][1]
        BY <3>1, <4>1
      <4> HIDE DEF Kind
      <4> QED BY <2>5, <4>2
    <3> QED BY <2>6, <3>2, <3>3, <3>4, <3>5, <3>6 DEF IsFunction
  <2>8. IsItem(a)
    BY <2>2, <2>7 DEF IsItem
  <2>9. ItemText(a) = t
    <3>1. ls # <<>> /\ ls[1] # <<>>
      BY <1>2 DEF Titled
    <3> QED BY <1>2, <1>4, <3>1, ItemTextIs DEF a
  <2> QED BY <1>3, <2>1, <2>8, <2>9 DEF a, Modes
<1>5. CASE line # <<"E">>
  <2>1. FunctionLine(line) = [mode |-> "block", text |-> <<>>] /\ Starts(line, "L") /\ Len(line) > 1
    BY <1>5 DEF FunctionLine
  <2>2. /\ Titled(a, "F") /\ BlockLines(a) /\ Len(a) > 1 /\ a[Len(a)] = line
        /\ \A i \in 1..Len(a) : Len(a[i]) < LineCap
        /\ OpenText(a) = OpenText(ls) \o <<>>
    <3>1. line[1] = "L"
      BY <2>1 DEF Starts
    <3> QED BY <1>2, <2>1, <3>1, BlockMore DEF a
  <2>3. OpenItem(a, "block", t \o <<>>)
    BY <1>2, <2>1, <2>2 DEF OpenItem
  <2> QED BY <1>3, <2>1, <2>3 DEF a, Modes
<1> QED BY <1>4, <1>5

\* parse_ir_block takes an instruction or the terminator.
LEMMA BlockTaken ==
    ASSUME NEW ls \in Seq(Text), NEW t, OpenItem(ls, "block", t),
           NEW line \in Text, Len(line) < LineCap, BlockLine(line).mode # "bad"
    PROVE  LET d == BlockLine(line) IN
           /\ d.mode \in Modes \ {"top"} /\ d.text \in Text /\ t \in Text
           /\ OpenItem(Append(ls, line), d.mode, t \o d.text)
<1> DEFINE a == Append(ls, line)
<1>1. /\ Titled(ls, "F") /\ BlockLines(ls) /\ t = OpenText(ls)
      /\ Len(ls) > 1 /\ (Starts(ls[Len(ls)], "L") \/ Starts(ls[Len(ls)], "k"))
      /\ \A i \in 1..Len(ls) : Len(ls[i]) < LineCap
  BY DEF OpenItem
<1>2. t \in Text
  <2>1. Printable(ls)
    BY OpenPrintable DEF Modes
  <2> QED BY <1>1, <2>1, OpenTextType
<1>3. /\ BlockLine(line).text = line /\ line[1] # "L" /\ (Starts(line, "R") \/ Starts(line, "k"))
      /\ BlockLine(line).mode = IF Starts(line, "R") THEN "function" ELSE "block"
  BY DEF BlockLine, Starts
<1> HIDE DEF a
<1>4. /\ Titled(a, "F") /\ BlockLines(a) /\ Len(a) > 1 /\ a[Len(a)] = line
      /\ \A i \in 1..Len(a) : Len(a[i]) < LineCap
      /\ OpenText(a) = OpenText(ls) \o line
  BY <1>1, <1>3, BlockMore DEF a
<1>5. OpenItem(a, BlockLine(line).mode, t \o line)
  <2>1. CASE Starts(line, "R")
    BY <1>1, <1>3, <1>4, <2>1 DEF OpenItem
  <2>2. CASE ~Starts(line, "R")
    BY <1>1, <1>3, <1>4, <2>2 DEF OpenItem
  <2> QED BY <2>1, <2>2
<1> QED BY <1>2, <1>3, <1>5 DEF a, Modes

\* The text of an item is one.
LEMMA ItemTextType ==
    ASSUME NEW ls \in Seq(Text), IsItem(ls)
    PROVE  ItemText(ls) \in Text /\ Len(ls) \in Nat \ {0}
<1>1. CASE ls = <<<<>>>>
  <2>1. ItemText(ls) = <<>> /\ <<>> \in Text
    BY <1>1 DEF ItemText, Text
  <2> QED BY <1>1, <2>1
<1>2. CASE ls # <<<<>>>>
  <2> DEFINE n == Len(ls)
             b == SubSeq(ls, 1, n - 1)
  <2>1. IsData(ls) \/ IsFunction(ls)
    BY <1>2 DEF IsItem
  <2>2. n \in Nat /\ n >= 2 /\ ls[n] = <<"E">> /\ Len(ls[1]) > 1
    <3>1. n \in Nat
      OBVIOUS
    <3>2. CASE IsData(ls)
      BY <3>1, <3>2 DEF IsData, Last
    <3>3. CASE IsFunction(ls)
      BY <3>1, <3>3 DEF IsFunction
    <3> QED BY <2>1, <3>2, <3>3
  <2>3. ls[1][1] \in {"D", "F"} /\ (ls[1][1] = "D" => IsData(ls))
    <3>1. ls[1] # <<>>
      BY <2>2
    <3>2. CASE IsData(ls)
      BY <3>2 DEF IsData
    <3>3. CASE IsFunction(ls)
      BY <3>1, <3>3 DEF IsFunction
    <3> QED BY <2>1, <3>2, <3>3
  <2>4. b \in Seq(Text) /\ Len(b) = n - 1 /\ \A i \in 1..(n - 1) : b[i] = ls[i]
    BY <2>2
  <2>5. ls = Append(b, <<"E">>)
    <3>1. <<"E">> \in Text
      BY <2>2
    <3> DEFINE t == Append(b, <<"E">>)
    <3>2. t \in Seq(Text) /\ Len(t) = n /\ t[n] = <<"E">> /\ \A i \in 1..(n - 1) : t[i] = b[i]
      <4> HIDE DEF b
      <4> QED BY <2>2, <2>4, <3>1
    <3> HIDE DEF t, b
    <3>3. \A i \in 1..n : ls[i] = t[i]
      <4> SUFFICES ASSUME NEW i \in 1..n PROVE ls[i] = t[i]
        OBVIOUS
      <4>1. i = n \/ i \in 1..(n - 1)
        BY <2>2
      <4> QED BY <2>2, <2>4, <3>2, <4>1
    <3>4. ls = t
      BY <3>2, <3>3, SeqEqual
    <3> QED BY <3>4 DEF t
  <2> HIDE DEF b
  <2>6. b[1] = ls[1] /\ b # <<>> /\ b[1] # <<>>
    BY <2>2, <2>4
  <2>7. Printable(b)
    <3> SUFFICES ASSUME NEW i \in 2..Len(b), b[1][1] = "D" PROVE DataLine(b[i])
      BY <2>2, <2>3, <2>4, <2>6 DEF Printable
    <3>1. i \in 2..(Len(ls) - 1) /\ b[i] = ls[i]
      BY <2>4
    <3>2. Len(ls[i]) > 1 /\ ls[i][1] \in {"z", "b", "a"}
      BY <2>3, <2>6, <3>1 DEF IsData
    <3>3. ls[i] # <<>>
      BY <3>2
    <3> QED BY <3>1, <3>2, <3>3 DEF DataLine, Starts
  <2>8. OpenText(b) \in Text
    BY <2>4, <2>7, OpenTextType
  <2>9. ItemText(ls) = OpenText(b)
    BY <2>4, <2>5, <2>6, ItemTextIs
  <2> QED BY <2>2, <2>8, <2>9
<1> QED BY <1>1, <1>2

\* Where items end that begin with the first line, and the first such place.
Ends(ls) == {n \in 1..Len(ls) : IsItem(SubSeq(ls, 1, n))}
AfterItem(ls) == SubSeq(ls, Min(Ends(ls)) + 1, Len(ls))
Outputs == [text : Text, whole : BOOLEAN]

\* Another text in such a record.
LEMMA OtherText ==
    ASSUME NEW a, NEW b, NEW y
    PROVE  [[text |-> a, whole |-> b] EXCEPT !.text = y] = [text |-> y, whole |-> b]
OBVIOUS

\* More text before that of a record.
LEMMA TextBefore ==
    ASSUME NEW r \in Outputs, NEW x
    PROVE  [r EXCEPT !.text = x \o @] = [text |-> x \o r.text, whole |-> r.whole]
<1> DEFINE a == r.text
           b == r.whole
<1>1. r = [text |-> a, whole |-> b] /\ r.text = a
  BY DEF Outputs
<1> HIDE DEF a, b
<1> DEFINE y == x \o a
<1>2. [r EXCEPT !.text = y] = [text |-> y, whole |-> b]
  <2> HIDE DEF y
  <2> QED BY <1>1, OtherText
<1>3. x \o r.text = y
  BY <1>1
<1> QED BY <1>2, <1>3 DEF a, b

\* The first item and what follows it.
LEMMA FirstItem ==
    ASSUME NEW ls \in Seq(Text), Ends(ls) # {}
    PROVE  /\ Min(Ends(ls)) \in 1..Len(ls)
           /\ ItemText(SubSeq(ls, 1, Min(Ends(ls)))) \in Text
           /\ AfterItem(ls) \in Seq(Text) /\ Len(AfterItem(ls)) < Len(ls)
<1> DEFINE n == Min(Ends(ls))
<1>1. n \in Ends(ls)
  <2>1. Ends(ls) \subseteq Nat
    BY DEF Ends
  <2> QED BY <2>1, LeastNatural
<1>2. n \in 1..Len(ls) /\ IsItem(SubSeq(ls, 1, n))
  BY <1>1 DEF Ends
<1> HIDE DEF n
<1>3. Len(ls) \in Nat /\ n \in Nat \ {0}
  BY <1>2
<1>4. SubSeq(ls, 1, n) \in Seq(Text)
  BY <1>2
<1>5. ItemText(SubSeq(ls, 1, n)) \in Text
  BY <1>2, <1>4, ItemTextType
<1>6. SubSeq(ls, n + 1, Len(ls)) \in Seq(Text) /\ Len(SubSeq(ls, n + 1, Len(ls))) = Len(ls) - n
  BY <1>2, <1>3
<1> QED BY <1>2, <1>3, <1>5, <1>6 DEF n, AfterItem

\* Items is what its definition says.
LEMMA ItemsIs ==
    /\ Items \in [Seq(Text) -> Outputs]
    /\ \A ls \in Seq(Text) :
          Items[ls] = IF Ends(ls) = {} THEN [text |-> <<>>, whole |-> ls = <<>>]
                      ELSE [text |-> ItemText(SubSeq(ls, 1, Min(Ends(ls)))) \o Items[AfterItem(ls)].text,
                            whole |-> Items[AfterItem(ls)].whole]
<1> DEFINE R == Outputs
           base == [text |-> <<>>, whole |-> TRUE]
           cut == [ls \in Seq(Text) |-> IF Ends(ls) = {} THEN <<>> ELSE AfterItem(ls)]
           Step(ls, r) == IF Ends(ls) = {} THEN [text |-> <<>>, whole |-> FALSE]
                          ELSE [text |-> ItemText(SubSeq(ls, 1, Min(Ends(ls)))) \o r.text, whole |-> r.whole]
           step == [p \in Seq(Text) \X R |-> Step(p[1], p[2])]
           IsItems(f) == f = [ls \in Seq(Text) |->
              LET ends == {n \in 1..Len(ls) : IsItem(SubSeq(ls, 1, n))}
              IN  IF ends = {} THEN [text |-> <<>>, whole |-> ls = <<>>]
                  ELSE LET n == Min(ends)
                           rest == f[SubSeq(ls, n + 1, Len(ls))]
                       IN  [rest EXCEPT !.text = ItemText(SubSeq(ls, 1, n)) \o @]]
           Value(f, ls) == IF Ends(ls) = {} THEN [text |-> <<>>, whole |-> ls = <<>>]
                           ELSE [text |-> ItemText(SubSeq(ls, 1, Min(Ends(ls)))) \o f[AfterItem(ls)].text,
                                 whole |-> f[AfterItem(ls)].whole]
<1>0. <<>> \in Text /\ <<>> \in Seq(Text) /\ Ends(<<>>) = {} /\ base \in R
  BY DEF Text, Ends, Outputs
<1>1. \A ls \in Seq(Text), r \in R : Step(ls, r) \in R
  <2> SUFFICES ASSUME NEW ls \in Seq(Text), NEW r \in R PROVE Step(ls, r) \in R
    OBVIOUS
  <2>1. CASE Ends(ls) = {}
    BY <1>0, <2>1 DEF Outputs
  <2>2. CASE Ends(ls) # {}
    <3> DEFINE x == ItemText(SubSeq(ls, 1, Min(Ends(ls))))
    <3>1. x \in Text
      BY <2>2, FirstItem
    <3> HIDE DEF x
    <3>2. r.text \in Text /\ r.whole \in BOOLEAN
      BY DEF Outputs
    <3>3. x \o r.text \in Text
      BY <3>1, <3>2, JoinText
    <3> QED BY <2>2, <3>2, <3>3 DEF x, Outputs
  <2> QED BY <2>1, <2>2
<1>2. step \in [Seq(Text) \X R -> R]
  <2> HIDE DEF Step, R
  <2> QED BY <1>1
<1>3. Shortens(cut, Text)
  <2> SUFFICES ASSUME NEW ls \in Seq(Text), ls # <<>> PROVE cut[ls] \in Seq(Text) /\ Len(cut[ls]) < Len(ls)
    BY DEF Shortens
  <2>1. CASE Ends(ls) = {}
    BY <1>0, <2>1
  <2>2. CASE Ends(ls) # {}
    BY <2>2, FirstItem
  <2> QED BY <2>1, <2>2
<1> HIDE DEF step, cut, base, R
<1>5. PICK f \in [Seq(Text) -> R] : Recursive(f, Text, base, cut, step)
  <2>1. base \in R
    BY <1>0
  <2> QED BY <1>2, <1>3, <2>1, SeqRecursion
<1>6. \A ls \in Seq(Text) : f[ls] = Value(f, ls)
  <2> SUFFICES ASSUME NEW ls \in Seq(Text) PROVE f[ls] = Value(f, ls)
    OBVIOUS
  <2>1. f[ls] = IF ls = <<>> THEN base ELSE step[<<ls, f[cut[ls]]>>]
    BY <1>5 DEF Recursive
  <2>2. CASE ls = <<>>
    <3>1. f[ls] = base
      BY <2>1, <2>2
    <3> QED BY <1>0, <2>2, <3>1 DEF base
  <2>3. CASE ls # <<>>
    <3>1. cut[ls] \in Seq(Text)
      BY <1>3, <2>3 DEF Shortens
    <3>2. f[cut[ls]] \in R
      BY <3>1
    <3>3. step[<<ls, f[cut[ls]]>>] = Step(ls, f[cut[ls]])
      BY <3>2 DEF step
    <3>4. f[ls] = Step(ls, f[cut[ls]])
      BY <2>1, <2>3, <3>3
    <3>5. CASE Ends(ls) = {}
      BY <2>3, <3>4, <3>5
    <3>6. CASE Ends(ls) # {}
      <4>1. cut[ls] = AfterItem(ls)
        BY <3>6 DEF cut
      <4> QED BY <3>4, <3>6, <4>1
    <3> QED BY <3>5, <3>6
  <2> QED BY <2>2, <2>3
<1>7. ASSUME NEW g, NEW ls \in Seq(Text), Ends(ls) # {}, g[AfterItem(ls)] \in R
      PROVE  [g[AfterItem(ls)] EXCEPT !.text = ItemText(SubSeq(ls, 1, Min(Ends(ls)))) \o @] = Value(g, ls)
  <2> DEFINE r == g[AfterItem(ls)]
             x == ItemText(SubSeq(ls, 1, Min(Ends(ls))))
  <2>1. r \in R
    BY <1>7
  <2> HIDE DEF r, x
  <2>2. [r EXCEPT !.text = x \o @] = [text |-> x \o r.text, whole |-> r.whole]
    BY <2>1, TextBefore DEF R
  <2> QED BY <1>7, <2>2 DEF r, x
<1>8. IsItems(f)
  <2> DEFINE F(ls) == LET ends == {n \in 1..Len(ls) : IsItem(SubSeq(ls, 1, n))}
                      IN  IF ends = {} THEN [text |-> <<>>, whole |-> ls = <<>>]
                          ELSE LET n == Min(ends)
                                   rest == f[SubSeq(ls, n + 1, Len(ls))]
                               IN  [rest EXCEPT !.text = ItemText(SubSeq(ls, 1, n)) \o @]
  <2>1. ASSUME NEW ls \in Seq(Text) PROVE F(ls) = f[ls]
    <3>1. CASE Ends(ls) = {}
      BY <1>6, <3>1 DEF Ends
    <3>2. CASE Ends(ls) # {}
      <4>1. F(ls) = [f[AfterItem(ls)] EXCEPT !.text = ItemText(SubSeq(ls, 1, Min(Ends(ls)))) \o @]
        BY <3>2 DEF Ends, AfterItem
      <4>2. f[AfterItem(ls)] \in R
        BY <3>2, FirstItem
      <4> HIDE DEF F, Value
      <4> QED BY <1>6, <1>7, <3>2, <4>1, <4>2
    <3> QED BY <3>1, <3>2
  <2>2. f = [ls \in Seq(Text) |-> f[ls]]
    OBVIOUS
  <2> HIDE DEF F
  <2>3. f = [ls \in Seq(Text) |-> F(ls)]
    BY <2>1, <2>2
  <2> QED BY <2>3 DEF F
<1>9. IsItems(Items)
  <2>1. Items = CHOOSE g : IsItems(g)
    BY Zenon DEF Items
  <2> HIDE DEF IsItems
  <2> QED BY <1>8, <2>1, Zenon
<1>10. \A ls \in Seq(Text) : Ends(ls) = {} => Items[ls] = [text |-> <<>>, whole |-> ls = <<>>]
  BY <1>9 DEF Ends
<1>11. \A ls \in Seq(Text) : Ends(ls) # {} =>
          Items[ls] = [Items[AfterItem(ls)] EXCEPT !.text = ItemText(SubSeq(ls, 1, Min(Ends(ls)))) \o @]
  BY <1>9 DEF Ends, AfterItem
<1>12. Items = [ls \in Seq(Text) |-> Items[ls]]
  BY <1>9
<1> HIDE DEF IsItems
<1>13. \A ls \in Seq(Text) : Items[ls] = f[ls]
  <2>1. Items[<<>>] = f[<<>>]
    BY <1>0, <1>6, <1>10
  <2>2. ASSUME NEW ls \in Seq(Text), ls # <<>>, Items[cut[ls]] = f[cut[ls]] PROVE Items[ls] = f[ls]
    <3>1. CASE Ends(ls) = {}
      BY <1>6, <1>10, <3>1
    <3>2. CASE Ends(ls) # {}
      <4>1. cut[ls] = AfterItem(ls)
        BY <3>2 DEF cut
      <4>2. f[AfterItem(ls)] \in R
        BY <3>2, FirstItem
      <4>3. Items[AfterItem(ls)] = f[AfterItem(ls)]
        BY <2>2, <4>1
      <4>4. f[ls] = [f[AfterItem(ls)] EXCEPT !.text = ItemText(SubSeq(ls, 1, Min(Ends(ls)))) \o @]
        <5> HIDE DEF Value
        <5> QED BY <1>6, <1>7, <3>2, <4>2
      <4>5. Items[ls] = [Items[AfterItem(ls)] EXCEPT !.text = ItemText(SubSeq(ls, 1, Min(Ends(ls)))) \o @]
        BY <1>11, <3>2
      <4> QED BY <4>3, <4>4, <4>5
    <3> QED BY <3>1, <3>2
  <2>3. AgreeBy(Items, f, cut, Text)
    BY <2>1, <2>2 DEF AgreeBy
  <2> QED BY <1>3, <2>3, SeqAgree
<1>14. Items \in [Seq(Text) -> Outputs]
  BY <1>12, <1>13 DEF R
<1>15. \A ls \in Seq(Text) : Items[ls] = Value(Items, ls)
  <2> SUFFICES ASSUME NEW ls \in Seq(Text) PROVE Items[ls] = Value(Items, ls)
    OBVIOUS
  <2>1. CASE Ends(ls) = {}
    BY <1>10, <2>1
  <2>2. CASE Ends(ls) # {}
    <3>1. Items[AfterItem(ls)] \in R
      BY <1>14, <2>2, FirstItem DEF R
    <3> HIDE DEF Value
    <3> QED BY <1>7, <1>11, <2>2, <3>1
  <2> QED BY <2>1, <2>2
<1> QED BY <1>14, <1>15

\* An item none of whose beginnings is one is printed before the rest.
LEMMA ItemFirst ==
    ASSUME NEW ls \in Seq(Text), IsItem(ls), \A n \in 1..(Len(ls) - 1) : ~IsItem(SubSeq(ls, 1, n)),
           NEW rest \in Seq(Text)
    PROVE  /\ Items[rest].text \in Text /\ Items[rest].whole \in BOOLEAN
           /\ Items[ls \o rest] = [text |-> ItemText(ls) \o Items[rest].text, whole |-> Items[rest].whole]
<1> DEFINE t == ls \o rest
           n == Len(ls)
<1>1. n \in Nat \ {0} /\ t \in Seq(Text) /\ Len(t) = n + Len(rest) /\ Len(rest) \in Nat
  BY ItemTextType
<1>2. ASSUME NEW i \in 1..n PROVE SubSeq(t, 1, i) = SubSeq(ls, 1, i)
  <2>1. 1 \in 1..n
    BY <1>1
  <2> QED BY <2>1, SubSeqOfConcat1
<1>3. SubSeq(ls, 1, n) = ls
  BY SubSeqFull
<1>4. SubSeq(t, n + 1, Len(t)) = rest
  <2>1. SubSeq(t, n + 1, Len(t)) \in Seq(Text) /\ Len(SubSeq(t, n + 1, Len(t))) = Len(rest)
        /\ \A i \in 1..Len(rest) : SubSeq(t, n + 1, Len(t))[i] = t[n + i]
    <3> HIDE DEF t, n
    <3> QED BY <1>1
  <2>2. \A i \in 1..Len(rest) : t[n + i] = rest[i]
    BY <1>1
  <2> DEFINE e == SubSeq(t, n + 1, Len(t))
  <2>3. e \in Seq(Text) /\ Len(e) = Len(rest) /\ \A i \in 1..Len(rest) : e[i] = rest[i]
    BY <2>1, <2>2
  <2> HIDE DEF e
  <2>4. e = rest
    BY <2>3, SeqEqual
  <2> QED BY <2>4 DEF e
<1> HIDE DEF t
<1>5. n \in Ends(t) /\ \A i \in Ends(t) : n <= i
  <2>1. n \in 1..n /\ n \in 1..Len(t)
    BY <1>1
  <2>2. n \in Ends(t)
    BY <1>2, <1>3, <2>1 DEF Ends
  <2>3. ASSUME NEW i \in Ends(t), ~(n <= i) PROVE FALSE
    <3>1. i \in 1..Len(t) /\ IsItem(SubSeq(t, 1, i))
      BY DEF Ends
    <3>2. i \in 1..n /\ i \in 1..(n - 1)
      BY <1>1, <2>3, <3>1
    <3> QED BY <1>2, <3>1, <3>2
  <2> QED BY <2>2, <2>3
<1>6. Min(Ends(t)) = n
  <2>1. Ends(t) \subseteq Nat
    BY DEF Ends
  <2>2. Min(Ends(t)) \in Ends(t) /\ Min(Ends(t)) <= n /\ n <= Min(Ends(t))
    BY <1>5, <2>1, LeastNatural
  <2> DEFINE m == Min(Ends(t))
  <2> HIDE DEF m, n
  <2>3. m \in Nat /\ m <= n /\ n <= m
    BY <2>1, <2>2 DEF m
  <2>4. m = n
    BY <1>1, <2>3
  <2> QED BY <2>4 DEF m
<1>7. AfterItem(t) = rest
  BY <1>4, <1>6 DEF AfterItem
<1>8. SubSeq(t, 1, n) = ls
  <2>1. n \in 1..n
    BY <1>1
  <2> QED BY <1>2, <1>3, <2>1
<1>9. Items[rest] \in Outputs
  BY ItemsIs
<1>10. Items[t] = [text |-> ItemText(SubSeq(t, 1, Min(Ends(t)))) \o Items[AfterItem(t)].text,
                   whole |-> Items[AfterItem(t)].whole]
  BY <1>1, <1>5, ItemsIs
<1>11. Items[rest].text \in Text /\ Items[rest].whole \in BOOLEAN
  BY <1>9 DEF Outputs
<1> HIDE DEF n
<1>12. Items[t] = [text |-> ItemText(ls) \o Items[rest].text, whole |-> Items[rest].whole]
  BY <1>6, <1>7, <1>8, <1>10
<1> QED BY <1>11, <1>12 DEF t

(***************************************************************************)
(* What hcc-m1 reads and keeps are texts.                                  *)
(***************************************************************************)
Texts ==
    /\ disk \in [Files -> Text]
    /\ inp \in Text /\ pos \in 0..Len(inp)
    /\ mode \in Modes /\ item \in Text /\ pending \in Text
    /\ ferror \in BOOLEAN
    /\ last \in [Programs -> {"idle", "done", "failed"}]
    /\ stage = "hcc-m1" => out.rest \in Text
    /\ stage = "hcc-m1" /\ pc = "read" => pos = 0

\* What has not been read is a text.
LEMMA UnreadType ==
    ASSUME inp \in Text, pos \in 0..Len(inp)
    PROVE  Unread \in Text /\ Len(Unread) = Len(inp) - pos
           /\ \A i \in 1..Len(Unread) : Unread[i] = inp[pos + i]
<1>1. Len(inp) \in Nat /\ pos + 1 \in Nat \ {0} /\ pos \in Nat
  BY DEF Text
<1>2. /\ SubSeq(inp, pos + 1, Len(inp)) \in Text
      /\ Len(SubSeq(inp, pos + 1, Len(inp))) = IF pos + 1 <= Len(inp) THEN Len(inp) - (pos + 1) + 1 ELSE 0
      /\ \A i \in 1..(Len(inp) - (pos + 1) + 1) : SubSeq(inp, pos + 1, Len(inp))[i] = inp[pos + 1 + i - 1]
  BY <1>1, RestOfText
<1>3. Len(Unread) = Len(inp) - pos
  BY <1>1, <1>2 DEF Unread
<1>4. ASSUME NEW i \in 1..Len(Unread) PROVE Unread[i] = inp[pos + i]
  <2>1. i \in 1..(Len(inp) - (pos + 1) + 1) /\ pos + 1 + i - 1 = pos + i
    BY <1>1, <1>3
  <2> QED BY <1>2, <2>1 DEF Unread
<1> QED BY <1>2, <1>3, <1>4 DEF Unread

\* Reading a line leaves what follows it.
LEMMA AdvanceIs ==
    ASSUME inp \in Text, pos \in 0..Len(inp), Advance
    PROVE  pos' \in 0..Len(inp) /\ inp' = inp /\ Unread' = AfterLine(Unread)
<1> DEFINE u == Unread
           e == LineEnd(u)
           n == Len(inp)
           s == {pos + e + 1, n}
<1>1. /\ u \in Text /\ Len(u) = n - pos /\ n \in Nat /\ pos \in Nat
      /\ \A i \in 1..Len(u) : u[i] = inp[pos + i]
  BY UnreadType DEF Text
<1>2. e \in 0..Len(u)
  BY <1>1, LineEndRange
<1>3. pos' = Min(s) /\ inp' = inp
  BY DEF Advance
<1>4. Min(s) \in s /\ Min(s) <= n /\ Min(s) <= pos + e + 1
  <2>1. s \subseteq Nat /\ s # {}
    BY <1>1, <1>2
  <2>2. Min(s) \in s /\ \A k \in s : Min(s) <= k
    <3> HIDE DEF s
    <3> QED BY <2>1, LeastNatural
  <2> QED BY <2>2
<1> HIDE DEF s
<1>5. pos' \in {pos + e + 1, n} /\ pos' <= n /\ pos' <= pos + e + 1
  BY <1>3, <1>4 DEF s
<1> HIDE DEF u, e, n
<1>6. pos' \in 0..n /\ pos' \in Nat
  BY <1>1, <1>2, <1>5
<1>7. /\ Unread' \in Text /\ Len(Unread') = n - pos'
      /\ \A i \in 1..Len(Unread') : Unread'[i] = inp[pos' + i]
  <2>1. pos' + 1 \in Nat \ {0}
    <3> DEFINE p == pos'
    <3>1. p \in Nat
      BY <1>6
    <3> HIDE DEF p
    <3>2. p + 1 \in Nat \ {0}
      BY <3>1
    <3> QED BY <3>2 DEF p
  <2>2. /\ SubSeq(inp, pos' + 1, Len(inp)) \in Text
        /\ Len(SubSeq(inp, pos' + 1, Len(inp))) = IF pos' + 1 <= Len(inp) THEN Len(inp) - (pos' + 1) + 1 ELSE 0
        /\ \A i \in 1..(Len(inp) - (pos' + 1) + 1) :
              SubSeq(inp, pos' + 1, Len(inp))[i] = inp[(pos' + 1) + i - 1]
    BY <2>1, RestOfText
  <2>3. Unread' = SubSeq(inp, pos' + 1, Len(inp))
    BY <1>3 DEF Unread
  <2>4. Len(Unread') = n - pos'
    BY <1>1, <1>6, <2>2, <2>3 DEF n
  <2>5. ASSUME NEW i \in 1..Len(Unread') PROVE Unread'[i] = inp[pos' + i]
    <3>1. i \in 1..(Len(inp) - (pos' + 1) + 1) /\ (pos' + 1) + i - 1 = pos' + i
      BY <1>1, <1>6, <2>4 DEF n
    <3>2. Unread'[i] = inp[(pos' + 1) + i - 1]
      BY <2>2, <2>3, <3>1
    <3> QED BY <3>1, <3>2
  <2> QED BY <2>2, <2>3, <2>4, <2>5
<1>8. /\ AfterLine(u) \in Text
      /\ Len(AfterLine(u)) = IF e + 2 <= Len(u) THEN Len(u) - (e + 2) + 1 ELSE 0
      /\ \A i \in 1..(Len(u) - (e + 2) + 1) : AfterLine(u)[i] = u[(e + 2) + i - 1]
  <2>1. e + 2 \in Nat \ {0}
    BY <1>1, <1>2
  <2> QED BY <1>1, <2>1, RestOfText DEF AfterLine, e
<1>c. Len(Unread') \in Nat /\ Len(Unread') = n - pos' /\ (pos' = pos + e + 1 \/ pos' = n)
      /\ Len(u) = n - pos /\ n \in Nat /\ pos \in Nat /\ e \in Nat /\ e <= Len(u) /\ pos' \in Nat
  <2> DEFINE p == pos'
             k == Len(Unread')
             m == Len(u)
  <2>1. n \in Nat /\ pos \in Nat /\ m = n - pos /\ e \in 0..m
    BY <1>1, <1>2
  <2>2. k = n - p /\ p \in Nat /\ p <= n /\ (p = pos + e + 1 \/ p = n)
    BY <1>5, <1>6, <1>7
  <2>3. pos <= n
    BY DEF n
  <2> HIDE DEF p, k, m, n
  <2>4. k \in Nat /\ e \in Nat /\ e <= m
    BY <2>1, <2>2, <2>3
  <2> QED BY <2>1, <2>2, <2>4 DEF p, k, m
<1> DEFINE p == pos'
           k == Len(Unread')
           m == Len(u)
<1>d. /\ k \in Nat /\ k = n - p /\ (p = pos + e + 1 \/ p = n)
      /\ m = n - pos /\ n \in Nat /\ pos \in Nat /\ e \in Nat /\ e <= m /\ p \in Nat
      /\ p <= n /\ p <= pos + e + 1
  BY <1>5, <1>c
<1> HIDE DEF p, k, m
<1>e. k = IF e + 2 <= m THEN m - (e + 2) + 1 ELSE 0
  BY <1>d
<1>f. \A i \in 1..k : p = pos + e + 1 /\ i \in 1..(m - (e + 2) + 1) /\ (e + 2) + i - 1 \in 1..m
  BY <1>d
<1>9. Len(AfterLine(u)) = Len(Unread')
  BY <1>8, <1>e DEF k, m
<1>10. ASSUME NEW i \in 1..Len(Unread') PROVE AfterLine(u)[i] = Unread'[i]
  <2>1. pos' = pos + e + 1 /\ i \in 1..(Len(u) - (e + 2) + 1) /\ (e + 2) + i - 1 \in 1..Len(u)
    BY <1>f DEF p, k, m
  <2>2. AfterLine(u)[i] = inp[pos + ((e + 2) + i - 1)]
    BY <1>1, <1>8, <2>1
  <2>3. pos + ((e + 2) + i - 1) = pos' + i
    BY <1>1, <1>2, <2>1
  <2> QED BY <1>7, <2>2, <2>3
<1> DEFINE v == Unread'
           w == AfterLine(u)
<1>11. v \in Seq(Chars) /\ w \in Seq(Chars) /\ Len(v) = Len(w) /\ \A i \in 1..Len(v) : v[i] = w[i]
  BY <1>7, <1>8, <1>9, <1>10 DEF Text
<1> HIDE DEF v, w
<1>12. v = w
  BY <1>11, SeqEqual
<1> QED BY <1>3, <1>6, <1>12 DEF v, w, u, n

\* A line that is not refused leaves a mode and a text.
LEMMA TakenType ==
    ASSUME mode \in Modes, NEW line \in Text, Taken(line).mode # "bad"
    PROVE  Taken(line).mode \in Modes /\ Taken(line).text \in Text
<1>1. <<>> \in Text /\ ":" \in Chars
  BY CharsAssumption DEF Text
<1>2. Len(line) > 1 => <<":", line[2]>> \in Text
  <2> SUFFICES ASSUME Len(line) > 1 PROVE <<":", line[2]>> \in Text
    OBVIOUS
  <2>1. 2 \in 1..Len(line) /\ \A i \in 1..Len(line) : line[i] \in Chars
    BY DEF Text
  <2>2. line[2] \in Chars
    BY <2>1
  <2> QED BY <1>1, <2>2 DEF Text
<1>3. CASE mode = "top"
  BY <1>1, <1>2, <1>3 DEF Taken, TopLine, Modes
<1>4. CASE mode = "data"
  BY <1>1, <1>4, CellsType DEF Taken, DataItemLine, Modes
<1>5. CASE mode = "function"
  BY <1>1, <1>5 DEF Taken, FunctionLine, Modes
<1>6. CASE mode = "block"
  BY <1>1, <1>6 DEF Taken, BlockLine, Modes
<1> QED BY <1>3, <1>4, <1>5, <1>6 DEF Modes

\* Only the file of hcc-m1 changes.
OnlyM == disk' \in [Files -> Text] /\ \A f \in Files \ {"m"} : disk'[f] = disk[f]

\* A step that puts a text into it.
LEMMA PutM ==
    ASSUME disk \in [Files -> Text], NEW t \in Text, disk' = disk \/ disk' = [disk EXCEPT !["m"] = t]
    PROVE  OnlyM
BY DEF OnlyM

\* die, in hcc-m1.
LEMMA M1DieTexts ==
    ASSUME Texts, m1_die, last' = last, stage = "hcc-m1"
    PROVE  Texts' /\ OnlyM
<1>1. "m" \in Files
  BY PipelineAssumption
<1>2. OnlyM
  <2>1. disk["m"] \in Text
    BY <1>1 DEF Texts
  <2>2. disk["m"] \o pending \in Text
    BY <2>1, JoinText DEF Texts
  <2>3. disk' = disk \/ disk' = [disk EXCEPT !["m"] = disk["m"] \o pending]
    BY DEF m1_die
  <2> QED BY <2>2, <2>3, PutM DEF Texts
<1>3. UNCHANGED <<inp, pos, mode, item, pending, ferror, out, last, stage>> /\ pc' = "end"
  BY DEF m1_die, m1Vars, M1Keep
<1> QED BY <1>2, <1>3 DEF Texts, OnlyM

\* Every step of hcc-m1.
LEMMA HccM1Texts ==
    ASSUME Texts, HccM1, last' = last
    PROVE  Texts' /\ OnlyM
<1> USE DEF Texts
<1>c. stage = "hcc-m1" /\ stage' = stage
  BY DEF HccM1, M1OpenInput, M1CannotOpen, M1OpenOutput, M1Header, TranslateEof, TranslateLine,
         M1Spill, m1_checked_write, M1Finish, m1_die, M1Ready, M1Keep
<1>0. stage = "hcc-m1" /\ stage' = stage /\ "m" \in Files /\ <<>> \in Text /\ (pc' = "read" => pc = "read")
  <2>1. "m" \in Files /\ <<>> \in Text
    BY PipelineAssumption DEF Text
  <2>2. pc' = pc \/ pc' \in {"open", "header", "translate", "ferror", "end"}
    BY DEF HccM1, M1OpenInput, M1CannotOpen, M1OpenOutput, M1Header, TranslateEof, TranslateLine,
           M1Spill, m1_checked_write, M1Finish, m1_die
  <2> QED BY <1>c, <2>1, <2>2
<1>a. ASSUME disk' = disk PROVE OnlyM
  BY <1>0, <1>a, PutM
<1>b. Line \in Text
  BY UnreadType, LineType DEF Line
<1>1. CASE M1OpenInput
  <2>1. PICK n \in 0..Len(disk["r"]) : inp' = SubSeq(disk["r"], 1, n)
    BY <1>1 DEF M1OpenInput
  <2>2. UNCHANGED <<exited, out, disk, pos, mode, item, pending, ferror>> /\ pc = "read" /\ pc' = "open"
    BY <1>1 DEF M1OpenInput
  <2>3. disk["r"] \in Text
    BY PipelineAssumption
  <2>4. SubSeq(disk["r"], 1, n) \in Text
    BY <2>3 DEF Text
  <2>5. pos' \in 0..Len(inp')
    <3>1. pos' = 0
      BY <1>0, <2>2
    <3>2. Len(inp') \in Nat
      BY <2>1, <2>4 DEF Text
    <3> QED BY <3>1, <3>2
  <2> QED BY <1>0, <1>a, <2>1, <2>2, <2>4, <2>5
<1>2. CASE M1CannotOpen
  <2>1. UNCHANGED <<inp, pos, mode, item, pending, ferror, out, disk>>
    BY <1>2 DEF M1CannotOpen, m1Vars
  <2> QED BY <1>0, <1>a, <2>1
<1>3. CASE M1OpenOutput
  <2>1. UNCHANGED <<inp, pos, mode, item, pending, ferror, out>> /\ disk' = [disk EXCEPT !["m"] = <<>>]
    BY <1>3 DEF M1OpenOutput, m1Vars
  <2>2. OnlyM
    BY <1>0, <2>1, PutM
  <2> QED BY <1>0, <2>1, <2>2 DEF OnlyM
<1>4. CASE m1_die
  BY <1>0, <1>4, M1DieTexts
<1>5. CASE M1Header /\ ~m1_die
  <2>1. Advance /\ pending' = pending \o <<"DEFINE">> /\ UNCHANGED <<out, disk, mode, item, ferror>>
        /\ pc' = "translate"
    BY <1>5 DEF M1Header
  <2>2. <<"DEFINE">> \in Text
    BY CharsAssumption DEF Text
  <2>3. pending' \in Text
    BY <2>1, <2>2, JoinText
  <2>4. pos' \in 0..Len(inp) /\ inp' = inp
    BY <2>1, AdvanceIs
  <2> QED BY <1>0, <1>a, <2>1, <2>3, <2>4
<1>6. CASE TranslateEof /\ ~m1_die
  <2>1. UNCHANGED <<inp, pos, mode, item, pending, ferror, out, disk>>
    BY <1>6 DEF TranslateEof, m1Vars
  <2> QED BY <1>0, <1>a, <2>1
<1>7. CASE TranslateLine /\ ~m1_die
  <2> DEFINE t == Taken(Line)
  <2>1. /\ Advance /\ mode' = t.mode /\ t.mode # "bad" /\ UNCHANGED <<out, disk, ferror>>
        /\ pc = "translate" /\ pc' = pc
        /\ IF t.mode = "top" THEN item' = <<>> /\ pending' = pending \o item \o t.text
           ELSE item' = item \o t.text /\ UNCHANGED pending
    BY <1>7 DEF TranslateLine
  <2>2. t.mode \in Modes /\ t.text \in Text
    BY <1>b, <2>1, TakenType
  <2> HIDE DEF t
  <2>3. item' \in Text /\ pending' \in Text
    <3>1. item \o t.text \in Text
      BY <2>2, JoinText
    <3>2. (pending \o item) \o t.text \in Text
      <4>1. pending \o item \in Text
        BY JoinText
      <4> QED BY <2>2, <4>1, JoinText
    <3> QED BY <1>0, <2>1, <3>1, <3>2
  <2>4. pos' \in 0..Len(inp) /\ inp' = inp
    BY <2>1, AdvanceIs
  <2> QED BY <1>0, <1>a, <2>1, <2>2, <2>3, <2>4
<1>8. CASE M1Spill
  <2>1. out' = [file |-> "m", rest |-> pending] /\ pending' = <<>> /\ UNCHANGED <<disk, inp, pos, mode, item, ferror>>
    BY <1>8 DEF M1Spill
  <2> QED BY <1>0, <1>a, <2>1
<1>9. CASE m1_checked_write
  <2>1. UNCHANGED <<inp, pos, mode, item, pending>> /\ out.rest # <<>> /\ out.rest \in Text
    BY <1>0, <1>9 DEF m1_checked_write
  <2>2. PICK n \in WriteResults :
             IF n > 0
             THEN /\ disk' = [disk EXCEPT !["m"] = @ \o SubSeq(out.rest, 1, n)]
                  /\ out' = [out EXCEPT !.rest = SubSeq(@, n + 1, Len(@))]
                  /\ UNCHANGED <<exited, ferror>>
             ELSE /\ out' = NoWrite
                  /\ exited' = IF m2 THEN "fail" ELSE "no"
                  /\ ferror' = (ferror \/ ~m2)
                  /\ UNCHANGED disk
    BY <1>9 DEF m1_checked_write
  <2>3. CASE n > 0
    <3>1. n \in 1..Len(out.rest)
      <4>1. Len(out.rest) \in Nat /\ n \in {-1, 0, 1, Len(out.rest)} /\ Len(out.rest) # 0
        BY <2>1 DEF WriteResults, Text
      <4> QED BY <2>3, <4>1
    <3>2. SubSeq(out.rest, 1, n) \in Text /\ SubSeq(out.rest, n + 1, Len(out.rest)) \in Text
      BY <2>1, <3>1, SplitText
    <3> DEFINE a == SubSeq(out.rest, 1, n)
               b == SubSeq(out.rest, n + 1, Len(out.rest))
    <3>3. disk' = [disk EXCEPT !["m"] = disk["m"] \o a] /\ out' = [out EXCEPT !.rest = b] /\ ferror' = ferror
      BY <2>2, <2>3
    <3> HIDE DEF a, b
    <3>4. disk["m"] \o a \in Text
      <4>1. disk["m"] \in Text
        BY <1>0
      <4> QED BY <3>2, <4>1, JoinText DEF a
    <3>5. OnlyM
      BY <3>3, <3>4, PutM
    <3>6. out'.rest \in Text
      BY <3>2, <3>3 DEF b
    <3> QED BY <1>0, <2>1, <3>3, <3>5, <3>6 DEF OnlyM
  <2>4. CASE ~(n > 0)
    <3>1. out' = NoWrite /\ ferror' = (ferror \/ ~m2) /\ disk' = disk
      BY <2>2, <2>4
    <3>2. ferror' \in BOOLEAN
      BY <3>1
    <3>3. out'.rest = <<>>
      BY <3>1 DEF NoWrite
    <3> QED BY <1>0, <1>a, <2>1, <3>1, <3>2, <3>3
  <2> QED BY <2>3, <2>4
<1>10. CASE M1Finish /\ ~m1_die
  <2>1. UNCHANGED <<inp, pos, mode, item, pending, ferror, out, disk>>
    BY <1>10 DEF M1Finish, m1Vars
  <2> QED BY <1>0, <1>a, <2>1
<1> QED BY <1>1, <1>2, <1>3, <1>4, <1>5, <1>6, <1>7, <1>8, <1>9, <1>10 DEF HccM1

\* At first every file holds a text and no program has run.
LEMMA TextsInitial == ASSUME Init PROVE Texts
<1>1. PICK s, r \in Text : disk = Disk(s, r)
  BY FirstDisk
<1>2. <<>> \in Text
  BY DEF Text
<1>3. disk \in [Files -> Text]
  BY <1>1, <1>2 DEF Disk
<1>4. inp = <<>> /\ pos = 0 /\ mode = "top" /\ item = <<>> /\ pending = <<>> /\ ferror = FALSE
      /\ last = [p \in Programs |-> "idle"] /\ stage # "hcc-m1"
  BY DEF Init
<1>5. pos \in 0..Len(inp)
  BY <1>4
<1>6. last \in [Programs -> {"idle", "done", "failed"}]
  BY <1>4
<1> QED BY <1>2, <1>3, <1>4, <1>5, <1>6 DEF Texts, Modes

\* A program is started with empty variables; the one before it has ended.
LEMMA LaunchTexts ==
    ASSUME Texts, exited # "no", NEW p \in Programs, Launch(p)
    PROVE  Texts'
<1>1. <<>> \in Text /\ "i" \in Files
  BY PipelineAssumption DEF Text
<1>2. disk' \in [Files -> Text]
  BY <1>1 DEF Launch, Texts
<1>3. last' \in [Programs -> {"idle", "done", "failed"}]
  <2>1. Outcome \in {"done", "failed"}
    BY DEF Outcome
  <2>2. last' = IF stage \in Programs THEN [last EXCEPT ![stage] = Outcome] ELSE last
    BY DEF Launch
  <2> QED BY <2>1, <2>2 DEF Texts
<1>4. inp' = <<>> /\ pos' = 0 /\ mode' = "top" /\ item' = <<>> /\ pending' = <<>> /\ ferror' = FALSE
      /\ out'.rest = <<>>
  BY DEF Launch, M1Fresh, Fresh, NoWrite
<1>5. pos' \in 0..Len(inp')
  BY <1>4
<1> QED BY <1>1, <1>2, <1>3, <1>4, <1>5 DEF Texts, Modes

\* Every step leaves texts.
LEMMA TextsStep == ASSUME PipeInv, Texts, [Next]_vars PROVE Texts'
<1>1. ASSUME stage # "hcc-m1", disk' \in [Files -> Text], UNCHANGED <<m1Vars, last, stage>> PROVE Texts'
  BY <1>1 DEF Texts, m1Vars
<1>2. CASE Start \/ NextCommand
  <2>1. exited # "no"
    BY <1>2 DEF Start, NextCommand
  <2>2. PICK p \in Programs : Launch(p)
    <3>1. CASE Start
      BY <3>1 DEF Start, Programs
    <3>2. CASE NextCommand
      BY <3>2 DEF NextCommand, Programs
    <3> QED BY <1>2, <3>1, <3>2
  <2> QED BY <2>1, <2>2, LaunchTexts
<1>3. CASE Killed
  <2>1. UNCHANGED <<inp, pos, mode, item, pending, ferror, last, stage, pc, out, disk>>
    BY <1>3 DEF Killed, m1Vars, driverVars
  <2> QED BY <2>1 DEF Texts
<1>4. CASE Running
  <2>1. disk' \in [Files -> Text]
    BY <1>4, RunningDisk DEF Texts, OwnFiles
  <2>2. stage \in {"hcpp", "hcc1"}
    BY <1>4 DEF Running, HsWriting
  <2>3. UNCHANGED <<m1Vars, last>>
    BY <1>4 DEF Running
  <2>4. stage' = stage
    BY <1>4 DEF Running, Hcpp, Hcc1, HsWriting, driverVars, CppRead, CppRefuse, CppRender, hccBufferText,
       hccPutStr, hccExitSuccess, Cc1Read, Cc1Refuse, Cc1Parse, Cc1SamePath, hccWithOpenWriteFile,
       Cc1NotOpened, hccWithObuf, hccWriteTransactionLine, Cc1Lowered, Cc1Write, Cc1Flush, Cc1Free,
       Cc1Close, Cc1Die, Reading, Keep
  <2> QED BY <1>1, <2>1, <2>2, <2>3, <2>4
<1>5. CASE RunningM1
  BY <1>5, HccM1Texts DEF RunningM1
<1>6. CASE Calling
  <2>1. disk' \in [Files -> Text]
    BY <1>6, CallingDisk DEF Texts, OwnFiles
  <2>2. stage # "hcc-m1" /\ UNCHANGED <<m1Vars, last, stage>>
    BY <1>6 DEF Calling, driverVars
  <2> QED BY <1>1, <2>1, <2>2
<1>7. CASE UNCHANGED vars
  <2>1. UNCHANGED <<inp, pos, mode, item, pending, ferror, last, stage, pc, out, disk>>
    BY <1>7 DEF vars, m1Vars, driverVars, runtimeVars
  <2> QED BY <2>1 DEF Texts
<1> QED BY <1>2, <1>3, <1>4, <1>5, <1>6, <1>7 DEF Next

(***************************************************************************)
(* A program that is not running.                                          *)
(***************************************************************************)
\* The file of a program, and how it looks from outside when it is not running.
FileOf(p) == CASE p = "hcpp" -> "i" [] p = "hcc1" -> "r" [] p = "hcc-m1" -> "m"
Active(p) == stage = p /\ exited = "no"
Rest(p) == IF stage # p THEN last[p] ELSE Outcome

\* It is idle or has ended.
LEMMA RestType ==
    ASSUME Texts, NEW p \in Programs, ~Active(p)
    PROVE  Rest(p) \in {"idle", "done", "failed"}
BY DEF Rest, Active, Outcome, Texts

\* The shell starts it, or what it looks like and its file stay.
Begun(p) ==
    /\ stage' = p /\ exited' = "no" /\ pc' = "read"
    /\ disk'[FileOf(p)] = IF p = "hcpp" THEN <<>> ELSE disk[FileOf(p)]
    /\ Fresh /\ M1Fresh

Waiting(p) ==
    /\ ~(stage' = p /\ exited' = "no")
    /\ Rest(p)' = Rest(p)
    /\ disk'[FileOf(p)] = disk[FileOf(p)]

\* The shell starts a program.
LEMMA LaunchSeen ==
    ASSUME Texts, exited # "no", NEW q \in Programs, Launch(q), NEW p \in Programs
    PROVE  Begun(p) \/ Waiting(p)
<1>1. /\ stage' = q /\ pc' = "read" /\ exited' = "no" /\ Fresh /\ M1Fresh
      /\ disk' = IF q = "hcpp" THEN [disk EXCEPT !["i"] = <<>>] ELSE disk
      /\ last' = IF stage \in Programs THEN [last EXCEPT ![stage] = Outcome] ELSE last
  BY DEF Launch, Fresh
<1>2. FileOf(p) \in Files /\ (p # "hcpp" => FileOf(p) # "i")
  BY PipelineAssumption DEF FileOf, Programs
<1>3. disk \in [Files -> Text] /\ last \in [Programs -> {"idle", "done", "failed"}]
  BY DEF Texts
<1>4. CASE p = q
  <2>1. disk'[FileOf(p)] = IF p = "hcpp" THEN <<>> ELSE disk[FileOf(p)]
    BY <1>1, <1>2, <1>3, <1>4 DEF FileOf, Programs
  <2> QED BY <1>1, <1>4, <2>1 DEF Begun
<1>5. CASE p # q
  <2>1. stage' # p
    BY <1>1, <1>5
  <2>2. disk'[FileOf(p)] = disk[FileOf(p)]
    BY <1>1, <1>2, <1>3, <1>5
  <2>3. last'[p] = Rest(p)
    BY <1>1, <1>3 DEF Rest
  <2>4. Rest(p)' = last'[p]
    BY <2>1 DEF Rest
  <2> QED BY <2>1, <2>2, <2>3, <2>4 DEF Waiting
<1> QED BY <1>4, <1>5

\* Every step of the others.
LEMMA NotRunning ==
    ASSUME PipeInv, Texts, [Next]_vars, NEW p \in Programs, ~Active(p)
    PROVE  Begun(p) \/ Waiting(p)
<1>0. FileOf(p) \in Files
  BY PipelineAssumption DEF FileOf, Programs
<1>a. ASSUME stage # p, stage' = stage, last' = last, disk'[FileOf(p)] = disk[FileOf(p)] PROVE Waiting(p)
  BY <1>a DEF Waiting, Rest
<1>b. ASSUME OwnFiles, stage # p, stage \in {"hcpp", "hcc1", "client"} PROVE disk'[FileOf(p)] = disk[FileOf(p)]
  <2>1. FileOf(p) \notin Writes
    BY <1>b, PipelineAssumption DEF Writes, Opens, FileOf, Programs
  <2> QED BY <1>0, <1>b, <2>1 DEF OwnFiles
<1>1. CASE Start \/ NextCommand
  <2>1. exited # "no"
    BY <1>1 DEF Start, NextCommand
  <2>2. PICK q \in Programs : Launch(q)
    <3>1. CASE Start
      BY <3>1 DEF Start, Programs
    <3>2. CASE NextCommand
      BY <3>2 DEF NextCommand, Programs
    <3> QED BY <1>1, <3>1, <3>2
  <2> QED BY <2>1, <2>2, LaunchSeen
<1>2. CASE Killed
  <2>1. exited = "no" /\ UNCHANGED <<disk, stage, last>>
    BY <1>2 DEF Killed, driverVars
  <2> QED BY <1>a, <2>1 DEF Active
<1>3. CASE Running
  <2>1. OwnFiles
    BY <1>3, RunningDisk DEF Texts
  <2>2. stage \in {"hcpp", "hcc1"} /\ stage' = stage /\ exited = "no" /\ last' = last
    BY <1>3 DEF Running, Hcpp, Hcc1, HsWriting, driverVars, CppRead, CppRefuse, CppRender, hccBufferText,
       hccPutStr, hccExitSuccess, Cc1Read, Cc1Refuse, Cc1Parse, Cc1SamePath, hccWithOpenWriteFile,
       Cc1NotOpened, hccWithObuf, hccWriteTransactionLine, Cc1Lowered, Cc1Write, Cc1Flush, Cc1Free,
       Cc1Close, Cc1Die, Reading, Keep, Ready, Writing
  <2>3. stage # p
    BY <2>2 DEF Active
  <2> QED BY <1>a, <1>b, <2>1, <2>2, <2>3
<1>4. CASE RunningM1
  <2>1. OnlyM /\ last' = last
    BY <1>4, HccM1Texts DEF RunningM1
  <2>2. stage = "hcc-m1" /\ stage' = stage /\ exited = "no"
    BY <1>4 DEF RunningM1, HccM1, M1OpenInput, M1CannotOpen, M1OpenOutput, M1Header, TranslateEof,
       TranslateLine, M1Spill, m1_checked_write, M1Finish, m1_die, M1Ready, M1Keep, Ready
  <2>3. stage # p
    BY <2>2 DEF Active
  <2>4. FileOf(p) \in Files \ {"m"}
    BY <1>0, <2>2, <2>3 DEF FileOf, Programs
  <2> QED BY <1>a, <2>1, <2>2, <2>3, <2>4 DEF OnlyM
<1>5. CASE Calling
  <2>1. OwnFiles
    BY <1>5, CallingDisk DEF Texts
  <2>2. stage = "client" /\ stage' = stage /\ last' = last
    BY <1>5 DEF Calling, driverVars
  <2>3. stage # p
    BY <2>2 DEF Programs
  <2> QED BY <1>a, <1>b, <2>1, <2>2, <2>3
<1>6. CASE UNCHANGED vars
  <2>1. UNCHANGED <<disk, stage, last, exited>>
    BY <1>6 DEF vars, runtimeVars, driverVars
  <2> QED BY <2>1 DEF Waiting, Rest, Active, Outcome
<1> QED BY <1>1, <1>2, <1>3, <1>4, <1>5, <1>6 DEF Next

\* What a program that runs may do: it goes on, is stopped, or nothing happens.
LEMMA ActiveSteps ==
    ASSUME PipeInv, [Next]_vars, NEW p \in Programs, Active(p)
    PROVE  \/ Killed
           \/ p \in {"hcpp", "hcc1"} /\ Running
           \/ p = "hcc-m1" /\ RunningM1
           \/ UNCHANGED vars
<1>1. ~Start /\ ~NextCommand
  BY DEF Start, NextCommand, Active
<1>2. ~Calling
  BY DEF Calling, Active, Programs
<1>3. Running => stage \in {"hcpp", "hcc1"}
  BY DEF Running, HsWriting
<1>4. RunningM1 => stage = "hcc-m1"
  BY DEF RunningM1, HccM1, M1OpenInput, M1CannotOpen, M1OpenOutput, M1Header, TranslateEof,
       TranslateLine, M1Spill, m1_checked_write, M1Finish, M1Ready
<1> QED BY <1>1, <1>2, <1>3, <1>4 DEF Next, Active

(***************************************************************************)
(* hcpp: the text in mind is what has been written, then what is on its    *)
(* way, in the buffer or still to be put into it.                          *)
(***************************************************************************)
\* Texts join to a text.
LEMMA Joins == \A a, b \in Text : a \o b \in Text
BY JoinText

\* The empty text, a text and what is appended to it.
LEMMA Beginnings == \A a, b \in Text : IsPrefix(<<>>, a) /\ IsPrefix(a, a) /\ IsPrefix(a, a \o b)
<1>1. ASSUME NEW a \in Text PROVE IsPrefix(<<>>, a)
  <2>1. <<>> \in Text
    BY DEF Text
  <2>2. IsPrefix(<<>>, <<>> \o a)
    BY <2>1, PrefixOfConcat
  <2>3. <<>> \o a = a
    BY EmptyEnds
  <2> QED BY <2>2, <2>3
<1> QED BY <1>1, PrefixSelf, PrefixOfConcat

\* A beginning is the same for each of the three programs.
LEMMA SameBeginnings ==
    ASSUME NEW a, NEW b
    PROVE  /\ CppPublish!IsPrefix(a, b) <=> IsPrefix(a, b)
           /\ Cc1Publish!IsPrefix(a, b) <=> IsPrefix(a, b)
           /\ M1Publish!IsPrefix(a, b) <=> IsPrefix(a, b)
BY DEF IsPrefix, CppPublish!IsPrefix, Cc1Publish!IsPrefix, M1Publish!IsPrefix

\* What hcpp keeps between two steps.
CppTold ==
    Active("hcpp") =>
        /\ pc \in {"read", "preprocess", "put", "exit"}
        /\ pc # "exit" => out.rest = <<>> /\ disk["i"] = <<>>
        /\ pc = "put" => should = [text |-> buffer.data \o todo, whole |-> TRUE]
        /\ pc = "exit" => out.file = "i" /\ should = [text |-> disk["i"] \o out.rest, whole |-> TRUE]

\* What is written when the program gives up: nothing, or all that is on its way.
LEMMA GivenUp ==
    ASSUME PipeInv, Texts, stage \in {"hcpp", "hcc1"}, hcc_exit_failure, NEW f \in Files
    PROVE  disk'[f] = disk[f] \/ disk'[f] = disk[f] \o (OnItsWay(f) \o KeptOf(f))
BY ExitFailureDisk DEF PipeInv, Texts

\* hcpp keeps nothing back.
LEMMA CppKeepsNothing == ASSUME PipeInv, stage = "hcpp" PROVE KeptOf("i") = <<>>
<1>1. "i" \in Files
  BY PipelineAssumption
<1>2. ~(given["i"].handle >= 0)
  BY <1>1 DEF PipeInv, FileInv, Owners, Opens
<1>3. given["i"].handle \in {-1, 0} \cup 1..MaxHandles
  BY <1>1 DEF PipeInv, FileInv, FileTypes
<1>4. ~(given["i"].handle >= 1)
  BY <1>2, <1>3, RuntimeAssumption
<1> QED BY <1>4 DEF KeptOf

\* The status of hcpp, seen through the refinement.
LEMMA CppSeen ==
    /\ Active("hcpp") => CppStatus = IF pc \in {"read", "preprocess"} THEN "reading" ELSE "writing"
    /\ stage = "hcpp" /\ exited # "no" => CppStatus = IF exited = "ok" THEN "done" ELSE "failed"
    /\ stage # "hcpp" \/ exited # "no" => CppStatus = Rest("hcpp")
BY DEF Active, CppStatus, Status, Outcome, Rest

\* Every step of hcpp implements one of Publish, or is not seen.
LEMMA CppStep ==
    ASSUME PipeInv, PipeInv', Texts, Texts', CppTold, [Next]_vars
    PROVE  CppTold' /\ [CppPublish!Next]_(CppPublish!pubVars)
<1> DEFINE d == disk["i"]
           d2 == disk'["i"]
<1>0. /\ "i" \in Files /\ d \in Text /\ d2 \in Text /\ <<>> \in Text
  BY PipelineAssumption DEF Texts, Text
<1> USE DEF CppPublish!pubVars
<1>1. CASE ~Active("hcpp")
  <2>0. Begun("hcpp") \/ Waiting("hcpp")
    BY <1>1, NotRunning DEF Programs
  <2>1. CppStatus = Rest("hcpp") /\ Rest("hcpp") \in {"idle", "done", "failed"}
    BY <1>1, CppSeen, RestType DEF Programs, Active
  <2>2. CASE Begun("hcpp")
    <3>1. stage' = "hcpp" /\ exited' = "no" /\ pc' = "read" /\ disk'["i"] = <<>> /\ out'.rest = <<>>
      BY <2>2 DEF Begun, FileOf, Fresh, NoWrite
    <3>2. CppTold'
      BY <3>1 DEF CppTold
    <3>3. CppStatus' = "reading"
      BY <3>1 DEF CppStatus, Status
    <3>4. CppPublish!Start
      BY <2>1, <3>1, <3>3 DEF CppPublish!Start, CppPublish!Stopped
    <3> QED BY <3>2, <3>4 DEF CppPublish!Next
  <2>3. CASE Waiting("hcpp")
    <3>1. disk'["i"] = disk["i"] /\ Rest("hcpp")' = Rest("hcpp") /\ ~Active("hcpp")'
      BY <2>3 DEF Waiting, FileOf, Active
    <3>2. CppStatus' = CppStatus
      <4>1. CppStatus' = Rest("hcpp")'
        BY <3>1 DEF CppStatus, Status, Rest, Active
      <4> QED BY <2>1, <3>1, <4>1
    <3>3. Want(CppStatus)' = Want(CppStatus)
      BY <2>1, <3>2 DEF Want
    <3>4. CppTold'
      BY <3>1 DEF CppTold
    <3> QED BY <3>1, <3>2, <3>3, <3>4
  <2> QED BY <2>0, <2>2, <2>3
<1>2. CASE Active("hcpp")
  <2>0. /\ stage = "hcpp" /\ exited = "no" /\ pc \in {"read", "preprocess", "put", "exit"}
        /\ pc # "exit" => out.rest = <<>> /\ d = <<>>
        /\ pc = "put" => should = [text |-> buffer.data \o todo, whole |-> TRUE]
        /\ pc = "exit" => out.file = "i" /\ should = [text |-> d \o out.rest, whole |-> TRUE]
    BY <1>2 DEF Active, CppTold
  <2>a. out.rest \in Text /\ buffer.data \in Text /\ todo \in Text
    BY <2>0 DEF PipeInv, FileInv, FileTypes, BufInv, BufferTypes, Buffers, Order
  <2>b. CppStatus = IF pc \in {"read", "preprocess"} THEN "reading" ELSE "writing"
    BY <1>2, CppSeen
  <2>w. CppStatus = "writing" => Want(CppStatus) = should
    BY DEF Want
  <2>c. ASSUME stage' = "hcpp", exited' = "no"
        PROVE  CppStatus' = IF pc' \in {"read", "preprocess"} THEN "reading" ELSE "writing"
    BY <2>c DEF CppStatus, Status
  <2>d. ASSUME CppStatus' = CppStatus, should' = should, disk' = disk
        PROVE  UNCHANGED CppPublish!pubVars
    BY <2>d DEF Want
  <2>e. ASSUME stage' = "hcpp", exited' \in {"fail", "killed"},
               d2 = d \/ d2 = d \o (OnItsWay("i") \o KeptOf("i"))
        PROVE  CppTold' /\ CppPublish!Next
    <3>1. CppStatus' = "failed" /\ CppTold'
      BY <2>e DEF CppStatus, Status, Outcome, CppTold, Active
    <3>2. OnItsWay("i") \o KeptOf("i") = IF out.file = "i" THEN out.rest ELSE <<>>
      <4>1. OnItsWay("i") = IF out.file = "i" THEN out.rest ELSE <<>>
        BY DEF OnItsWay
      <4>2. KeptOf("i") = <<>>
        BY <2>0, CppKeepsNothing
      <4>3. OnItsWay("i") \in Text
        BY <1>0, <2>a, <4>1
      <4> QED BY <4>1, <4>2, <4>3, EmptyEnds
    <3>3. CASE pc \in {"read", "preprocess"}
      <4>1. d2 = d
        BY <1>0, <2>0, <2>e, <3>2, <3>3, EmptyEnds
      <4> QED BY <2>b, <3>1, <3>3, <4>1 DEF CppPublish!Next, CppPublish!Fail, CppPublish!IsPrefix, IsPrefix
    <3>4. CASE pc = "put"
      <4>1. d2 = <<>> /\ d = <<>>
        BY <1>0, <2>0, <2>e, <3>2, <3>4, EmptyEnds
      <4>2. should.text \in Text
        <5>1. buffer.data \o todo \in Text
          BY <2>a, Joins
        <5>2. should.text = buffer.data \o todo
          BY <2>0, <3>4
        <5> QED BY <5>1, <5>2
      <4>3. IsPrefix(<<>>, should.text) /\ IsPrefix(<<>>, <<>>)
        BY <1>0, <4>2, Beginnings
      <4> QED BY <2>b, <2>w, <3>1, <3>4, <4>1, <4>3 DEF CppPublish!Next, CppPublish!Fail, CppPublish!IsPrefix, IsPrefix
    <3>5. CASE pc = "exit"
      <4>1. d2 = d \/ d2 = d \o out.rest
        <5>1. OnItsWay("i") \o KeptOf("i") = out.rest
          BY <2>0, <3>2, <3>5
        <5> QED BY <2>e, <5>1
      <4>2. should.text = d \o out.rest
        <5>1. should = [text |-> d \o out.rest, whole |-> TRUE]
          BY <2>0, <3>5
        <5> QED BY <5>1
      <4>3. IsPrefix(d, d) /\ IsPrefix(d, d \o out.rest) /\ IsPrefix(d \o out.rest, d \o out.rest)
        <5>1. d \o out.rest \in Text
          BY <1>0, <2>a, Joins
        <5> QED BY <1>0, <2>a, <5>1, Beginnings
      <4> QED BY <2>b, <2>w, <3>1, <3>5, <4>1, <4>2, <4>3 DEF CppPublish!Next, CppPublish!Fail, CppPublish!IsPrefix, IsPrefix
    <3> QED BY <2>0, <3>3, <3>4, <3>5
  <2> HIDE DEF d, d2
  <2>1. CASE Killed
    <3>1. exited' = "killed" /\ stage' = stage /\ disk' = disk
      BY <2>1 DEF Killed, driverVars
    <3> QED BY <2>0, <2>e, <3>1 DEF d, d2
  <2>2. CASE UNCHANGED vars
    <3>1. UNCHANGED <<m2, exited, stage, pc, out, disk, should, buffer, todo, last>>
      BY <2>2 DEF vars, runtimeVars, driverVars
    <3>2. CppStatus' = CppStatus /\ CppTold'
      BY <3>1 DEF CppStatus, Status, Outcome, CppTold, Active
    <3> QED BY <2>d, <3>1, <3>2
  <2>3. CASE Running /\ hcc_exit_failure
    <3>1. stage' = "hcpp"
      BY <2>0, <2>3 DEF Running, Hcpp, HsWriting, driverVars, CppRead, CppRefuse, CppRender,
         hccBufferText, hccPutStr, hccExitSuccess, Reading, Keep
    <3>2. exited' = "fail" /\ (d2 = d \/ d2 = d \o (OnItsWay("i") \o KeptOf("i")))
      <4>1. d2 = d \/ d2 = d \o (OnItsWay("i") \o KeptOf("i"))
        BY <1>0, <2>0, <2>3, GivenUp DEF d, d2
      <4> QED BY <2>3, <4>1 DEF hcc_exit_failure
    <3> QED BY <2>e, <3>1, <3>2
  <2>4. CASE Running /\ CppRead
    <3>1. pc = "read" /\ pc' = "preprocess" /\ UNCHANGED <<stage, exited, out, disk>>
      BY <2>4 DEF CppRead, Reading, Io
    <3>2. should' = should
      BY <2>4, <3>1 DEF Running
    <3>3. CppStatus' = CppStatus
      BY <2>0, <2>b, <2>c, <3>1
    <3>4. CppTold'
      BY <2>0, <3>1 DEF CppTold, Active, d
    <3> QED BY <2>d, <3>1, <3>2, <3>3, <3>4
  <2>5. CASE Running /\ CppRender
    <3>1. /\ pc = "preprocess" /\ pc' = "put" /\ UNCHANGED <<stage, exited, out, disk>>
          /\ buffer'.data = <<>>
      BY <2>5 DEF CppRender, Io, Keep, hcc_buffer_clear
    <3>2. should' = [text |-> todo', whole |-> TRUE]
      BY <2>5, <3>1 DEF Running, Nothing
    <3>3. todo' \in Text
      BY DEF PipeInv, Order
    <3>4. <<>> \o todo' = todo'
      BY <3>3, EmptyEnds
    <3>5. CppTold'
      BY <2>0, <3>1, <3>2, <3>4 DEF CppTold, Active, d
    <3>6. CppStatus = "reading" /\ CppStatus' = "writing" /\ disk'["i"] = <<>>
      BY <2>0, <2>b, <2>c, <3>1 DEF d
    <3> QED BY <3>5, <3>6 DEF CppPublish!Next, CppPublish!Open
  <2>6. CASE Running /\ hccBufferText
    <3>1. /\ pc = "put" /\ pc' = "put" /\ UNCHANGED <<stage, exited, out, disk>> /\ todo # <<>>
          /\ buffer'.data = buffer.data \o FirstOf(todo) /\ todo' = After(todo, Piece(todo))
      BY <2>6 DEF hccBufferText, Io, Keep, hcc_buffer_put
    <3>2. should' = should
      BY <2>6, <3>1 DEF Running
    <3>3. buffer'.data \o todo' = buffer.data \o todo
      <4>1. FirstOf(todo) \in Text /\ After(todo, Piece(todo)) \in Text
            /\ todo = FirstOf(todo) \o After(todo, Piece(todo))
        BY <2>a, <3>1, Pieces
      <4> DEFINE a == buffer.data
                 b == FirstOf(todo)
                 c == After(todo, Piece(todo))
      <4>2. a \in Text /\ b \in Text /\ c \in Text /\ todo = b \o c /\ buffer'.data = a \o b /\ todo' = c
        BY <2>a, <3>1, <4>1
      <4> HIDE DEF a, b, c
      <4>3. (a \o b) \o c = a \o (b \o c)
        <5>1. Associates(a, b, c)
          BY <4>2, TextAssociates
        <5> QED BY <5>1 DEF Associates
      <4>4. buffer'.data \o todo' = a \o todo
        BY <4>2, <4>3
      <4> QED BY <4>4 DEF a
    <3>4. CppTold'
      BY <2>0, <3>1, <3>2, <3>3 DEF CppTold, Active, d
    <3>5. CppStatus' = CppStatus
      BY <2>0, <2>b, <2>c, <3>1
    <3> QED BY <2>d, <3>1, <3>2, <3>4, <3>5
  <2>7. CASE Running /\ hccPutStr
    <3>1. /\ pc = "put" /\ pc' = "exit" /\ UNCHANGED <<stage, exited, disk>> /\ todo = <<>>
          /\ out' = [file |-> "i", rest |-> buffer.data]
      BY <2>7 DEF hccPutStr, Goto, Keep, hcc_stdout_buffer
    <3>2. should' = should
      BY <2>7, <3>1 DEF Running
    <3>3. buffer.data \o <<>> = buffer.data /\ <<>> \o buffer.data = buffer.data
      BY <2>a, EmptyEnds
    <3>4. CppTold'
      BY <2>0, <3>1, <3>2, <3>3 DEF CppTold, Active, d
    <3>5. CppStatus' = CppStatus
      BY <2>0, <2>b, <2>c, <3>1
    <3> QED BY <2>d, <3>1, <3>2, <3>4, <3>5
  <2>8. CASE Running /\ hccExitSuccess /\ ~hcc_exit_failure
    <3>1. /\ pc = "exit" /\ stage' = stage /\ exited' = "ok" /\ disk' = disk /\ out.rest = <<>>
      BY <2>8 DEF hccExitSuccess, hcc_exit_success, output_failure, Keep, Ready
    <3>2. should = [text |-> d, whole |-> TRUE]
      BY <1>0, <2>0, <3>1, EmptyEnds DEF d
    <3>3. CppStatus = "writing" /\ CppStatus' = "done" /\ CppTold'
      BY <2>0, <2>b, <3>1 DEF CppStatus, Status, Outcome, CppTold, Active
    <3> QED BY <2>w, <3>1, <3>2, <3>3 DEF CppPublish!Next, CppPublish!Succeed, d
  <2>9. CASE Running /\ HsWriting /\ ~hcc_exit_failure
    <3>1. /\ UNCHANGED <<stage, pc, todo, buffer>> /\ out.rest # <<>>
          /\ \E n \in WriteResults : checked_write(n)
      BY <2>9 DEF HsWriting, Writing, driverVars
    <3>2. should' = should /\ pc = "exit"
      BY <2>0, <2>9, <3>1 DEF Running
    <3>3. PICK n \in WriteResults : checked_write(n)
      BY <3>1
    <3>4. PICK a, b \in Text :
                    /\ out.rest = a \o b /\ out' = [file |-> out.file, rest |-> b] /\ exited' = exited
                    /\ \A f \in Files : disk'[f] = IF f = out.file THEN disk[f] \o a ELSE disk[f]
      <4>1. FileInv /\ disk \in [Files -> Text] /\ stage # "hcc-m1"
        BY <2>0 DEF PipeInv, Texts
      <4> QED BY <2>0, <2>9, <3>1, <3>3, <4>1, WriteDisk
    <3>5. d2 = d \o a /\ out.file = "i"
      BY <1>0, <2>0, <3>2, <3>4 DEF d, d2
    <3>6. d2 \o b = d \o out.rest
      <4>1. (d \o a) \o b = d \o (a \o b)
        <5>1. Associates(d, a, b)
          BY <1>0, <3>4, TextAssociates
        <5> QED BY <5>1 DEF Associates
      <4> QED BY <3>4, <3>5, <4>1
    <3>7. CppTold'
      <4>1. out'.file = "i" /\ out'.rest = b
        BY <3>4, <3>5
      <4>2. should = [text |-> d \o out.rest, whole |-> TRUE]
        BY <2>0, <3>2
      <4>3. should' = [text |-> d2 \o out'.rest, whole |-> TRUE]
        BY <3>2, <3>6, <4>1, <4>2
      <4> QED BY <2>0, <3>1, <3>2, <4>1, <4>3 DEF CppTold, Active, d2
    <3>8. CppStatus = "writing" /\ CppStatus' = "writing"
      BY <2>0, <2>b, <2>c, <3>1, <3>2, <3>4
    <3>9. IsPrefix(d, d2) /\ IsPrefix(d2, should.text)
      <4>1. should.text = d2 \o b
        <5>1. should = [text |-> d \o out.rest, whole |-> TRUE]
          BY <2>0, <3>2
        <5> QED BY <3>6, <5>1
      <4>2. IsPrefix(d2, d2 \o b) /\ IsPrefix(d, d \o a)
        BY <1>0, <3>4, Beginnings
      <4> QED BY <3>5, <4>1, <4>2
    <3>10. CppPublish!Extend
      BY <2>w, <3>2, <3>8, <3>9 DEF CppPublish!Extend, Want, d, d2, CppPublish!IsPrefix, IsPrefix
    <3> QED BY <3>7, <3>10 DEF CppPublish!Next
  <2>10. Running => \/ hcc_exit_failure \/ CppRead \/ CppRender \/ hccBufferText \/ hccPutStr
                    \/ hccExitSuccess \/ HsWriting
    BY <2>0 DEF Running, Hcpp, CppRefuse, die
  <2>11. Killed \/ Running \/ UNCHANGED vars
    BY <1>2, ActiveSteps DEF Programs
  <2> QED BY <2>1, <2>2, <2>3, <2>4, <2>5, <2>6, <2>7, <2>8, <2>9, <2>10, <2>11
<1> QED BY <1>1, <1>2

(***************************************************************************)
(* hcc1: what it hands to its file is nothing, or everything.              *)
(***************************************************************************)
\* The text of the lines of a file.
LinesText(ls) == FlattenSeq([i \in 1..Len(ls) |-> Append(ls[i], "nl")])

\* Its file is open, or has been.
Cc1Open == pc \notin {"read", "parse", "same"} /\ ~(pc = "opened" /\ ret = 0)

\* What hcc1 keeps between two steps.
Cc1Told ==
    Active("hcc1") =>
        /\ pc \in {"read", "parse", "same", "opened", "line", "write", "flush", "free", "close",
                   "exit", "refused"}
        /\ pc \in {"read", "parse", "same", "opened", "line", "write"} => out.rest = <<>>
        /\ pc \in {"read", "parse", "same", "opened"} => \A o \in 1..MaxObufs : ~obufs[o].used
        /\ pc \notin {"read", "parse"} => should = Ir(todo)
        /\ pc = "opened" /\ ret = 0 => given["r"].handle = -1
        /\ (pc = "opened" /\ ret # 0) \/ pc \in {"line", "write"} =>
              given["r"] = [handle |-> 1, text |-> <<>>]
        /\ pc \in {"line", "write"} => GoodObuf(ret)
        /\ pc = "line" => obufs[ret].data \o LinesText(lines) = LinesText(Printed(todo))
        /\ pc = "write" => Lowered(todo) /\ obufs[ret].data = should.text
        /\ pc \in {"flush", "free", "close"} => given["r"] = [handle |-> 1, text |-> should.text]
        /\ pc \in {"exit", "refused"} => given["r"] = [handle |-> 0, text |-> should.text]
        /\ pc = "exit" => Lowered(todo)

\* A sequence is the function of its elements.
LEMMA SeqIsFunction == ASSUME NEW S, NEW s \in Seq(S) PROVE s = [i \in 1..Len(s) |-> s[i]]
OBVIOUS

\* The first line, and then the others.
LEMMA LinesTextIs ==
    ASSUME NEW ls \in Seq(Text)
    PROVE  /\ LinesText(ls) \in Text
           /\ ls = <<>> => LinesText(ls) = <<>>
           /\ ls # <<>> => LinesText(ls) = Append(ls[1], "nl") \o LinesText(Tail(ls))
<1> DEFINE ss == [i \in 1..Len(ls) |-> Append(ls[i], "nl")]
<1>0. "nl" \in Chars
  BY LinesAssumption
<1>1. ss \in Seq(Seq(Chars)) /\ Len(ss) = Len(ls) /\ Len(ls) \in Nat
  <2>1. \A i \in 1..Len(ls) : Append(ls[i], "nl") \in Seq(Chars)
    BY <1>0 DEF Text
  <2> QED BY <2>1
<1>2. LinesText(ls) = FlattenSeq(ss)
  BY DEF LinesText
<1>3. LinesText(ls) \in Text
  <2> HIDE DEF ss
  <2> QED BY <1>1, <1>2, FlattenType DEF Text
<1>4. ASSUME ls = <<>> PROVE LinesText(ls) = <<>>
  <2>1. \A i \in 1..Len(ss) : ss[i] = <<>>
    BY <1>1, <1>4
  <2> HIDE DEF ss
  <2> QED BY <1>1, <1>2, <2>1, FlattenNone
<1>5. ASSUME ls # <<>> PROVE LinesText(ls) = Append(ls[1], "nl") \o LinesText(Tail(ls))
  <2>1. Len(ls) # 0 /\ Len(Tail(ls)) = Len(ls) - 1 /\ \A i \in 1..(Len(ls) - 1) : Tail(ls)[i] = ls[i + 1]
    BY <1>5
  <2>2. ss # <<>> /\ ss[1] = Append(ls[1], "nl")
    <3>1. 1 \in 1..Len(ls) /\ Len(ss) # 0
      BY <1>1, <2>1
    <3>2. ss[1] = Append(ls[1], "nl")
      BY <3>1
    <3>3. ss # <<>>
      <4> HIDE DEF ss
      <4> QED BY <1>1, <3>1
    <3> QED BY <3>2, <3>3
  <2>3. Tail(ss) = [i \in 1..Len(Tail(ls)) |-> Append(Tail(ls)[i], "nl")]
    <3> DEFINE tt == [i \in 1..Len(Tail(ls)) |-> Append(Tail(ls)[i], "nl")]
    <3>1. Tail(ss) \in Seq(Seq(Chars)) /\ Len(Tail(ss)) = Len(ls) - 1
      BY <1>1, <2>2
    <3>2. \A i \in 1..(Len(ls) - 1) : Tail(ss)[i] = tt[i]
      <4>1. \A i \in 1..(Len(ls) - 1) : Tail(ss)[i] = ss[i + 1]
        BY <1>1, <2>2
      <4> QED BY <1>1, <2>1, <4>1
    <3>3. Tail(ss) = [i \in 1..(Len(ls) - 1) |-> Tail(ss)[i]]
      <4> DEFINE T == Tail(ss)
      <4> HIDE DEF ss, T
      <4>1. T \in Seq(Seq(Chars)) /\ Len(T) = Len(ls) - 1
        BY <3>1 DEF T
      <4>2. T = [i \in 1..Len(T) |-> T[i]]
        BY <4>1, SeqIsFunction
      <4> QED BY <4>1, <4>2 DEF T
    <3>4. tt = [i \in 1..(Len(ls) - 1) |-> tt[i]]
      BY <2>1
    <3> HIDE DEF ss, tt
    <3>5. Tail(ss) = tt
      BY <3>2, <3>3, <3>4
    <3> QED BY <3>5 DEF tt
  <2> HIDE DEF ss
  <2>4. FlattenSeq(ss) = ss[1] \o FlattenSeq(Tail(ss))
    BY <1>1, <2>2, FlattenTail
  <2>5. FlattenSeq(Tail(ss)) = LinesText(Tail(ls))
    BY <2>3 DEF LinesText
  <2> QED BY <1>2, <2>2, <2>4, <2>5
<1> QED BY <1>3, <1>4, <1>5

\* A line of which the first piece has been put somewhere else.
LEMMA LineCutShort ==
    ASSUME NEW ls \in Seq(Text), ls # <<>>, NEW b \in Text, NEW c \in Text, ls[1] = b \o c
    PROVE  LET rest == [ls EXCEPT ![1] = c] IN
           rest \in Seq(Text) /\ LinesText(ls) = b \o LinesText(rest)
<1> DEFINE rest == [ls EXCEPT ![1] = c]
           tail == LinesText(Tail(ls))
<1>0. "nl" \in Chars
  BY LinesAssumption
<1>1. 1 \in 1..Len(ls) /\ Tail(ls) \in Seq(Text)
  OBVIOUS
<1>2. rest \in Seq(Text) /\ Len(rest) = Len(ls) /\ rest[1] = c
  <2>1. rest \in Seq(Text)
    BY <1>1, ExceptSeq
  <2> QED BY <1>1, <2>1
<1>3. Tail(rest) = Tail(ls)
  <2>1. rest = [i \in 1..Len(ls) |-> IF i = 1 THEN c ELSE ls[i]]
    <3>1. ls = [i \in 1..Len(ls) |-> ls[i]]
      OBVIOUS
    <3> QED BY <1>1, <3>1
  <2>2. rest # <<>> /\ \A i \in 1..(Len(ls) - 1) : rest[i + 1] = ls[i + 1]
    BY <1>2, <2>1
  <2> HIDE DEF rest
  <2>3. /\ Tail(rest) \in Seq(Text) /\ Len(Tail(rest)) = Len(ls) - 1
        /\ \A i \in 1..(Len(ls) - 1) : Tail(rest)[i] = rest[i + 1]
    BY <1>2, <2>2
  <2>4. Len(Tail(ls)) = Len(ls) - 1 /\ \A i \in 1..(Len(ls) - 1) : Tail(ls)[i] = ls[i + 1]
    OBVIOUS
  <2>5. \A i \in 1..(Len(ls) - 1) : Tail(rest)[i] = Tail(ls)[i]
    BY <2>2, <2>3, <2>4
  <2>6. /\ Tail(rest) = [i \in 1..Len(Tail(rest)) |-> Tail(rest)[i]]
        /\ Tail(ls) = [i \in 1..Len(Tail(ls)) |-> Tail(ls)[i]]
    BY <1>1, <2>3, SeqIsFunction
  <2> QED BY <2>3, <2>4, <2>5, <2>6
<1>4. tail \in Text
  BY <1>1, LinesTextIs
<1>5. LinesText(ls) = Append(b \o c, "nl") \o tail
  <2>1. LinesText(ls) = Append(ls[1], "nl") \o LinesText(Tail(ls))
    BY LinesTextIs
  <2> QED BY <2>1
<1>6. LinesText(rest) = Append(c, "nl") \o tail
  <2>1. rest # <<>>
    BY <1>2
  <2> HIDE DEF rest
  <2> QED BY <1>2, <1>3, <2>1, LinesTextIs
<1> DEFINE nl == <<"nl">>
           z == Append(c, "nl")
<1>7. Append(b \o c, "nl") = (b \o c) \o nl /\ z = c \o nl /\ nl \in Text
  <2>1. ASSUME NEW t \in Seq(Chars) PROVE Append(t, "nl") = t \o <<"nl">>
    <3>1. "nl" \in Chars
      BY <1>0
    <3> QED BY <3>1, AppendIsConcat
  <2>2. b \o c \in Seq(Chars) /\ c \in Seq(Chars) /\ nl \in Text
    BY <1>0 DEF Text
  <2> QED BY <2>1, <2>2
<1> HIDE DEF rest, tail, nl, z
<1>8. Append(b \o c, "nl") \o tail = b \o (z \o tail)
  <2>1. (b \o c) \o nl = b \o z /\ z \in Text
    <3>1. b \in Text /\ c \in Text /\ nl \in Text
      BY <1>7
    <3>2. (b \o c) \o nl = b \o (c \o nl)
      <4>1. Associates(b, c, nl)
        BY <3>1, TextAssociates
      <4> QED BY <4>1 DEF Associates
    <3>3. c \o nl \in Text
      BY <3>1, JoinText
    <3> QED BY <1>7, <3>2, <3>3
  <2>2. (b \o z) \o tail = b \o (z \o tail)
    <3>1. Associates(b, z, tail)
      BY <1>4, <2>1, TextAssociates
    <3> QED BY <3>1 DEF Associates
  <2> QED BY <1>7, <2>1, <2>2
<1>9. LinesText(ls) = b \o LinesText(rest)
  BY <1>5, <1>6, <1>8 DEF z
<1> QED BY <1>2, <1>9 DEF rest

\* The IR of a program is a text.
LEMMA IrType ==
    ASSUME NEW names \in Text
    PROVE  /\ Ir(names).text \in Text
           /\ Ir(names).whole = Lowered(names)
           /\ Ir(names).text = IF Lowered(names) THEN LinesText(Printed(names)) ELSE <<>>
<1>1. LinesText(Printed(names)) \in Text /\ <<>> \in Text
  BY PrintedType, LinesTextIs DEF Text
<1>2. Ir(names) = [text |-> IF Lowered(names) THEN LinesText(Printed(names)) ELSE <<>>,
                   whole |-> Lowered(names)]
  BY DEF Ir, LinesText
<1> QED BY <1>1, <1>2

\* With no file open the first entry of the table of handles is free.
LEMMA FirstHandle ==
    ASSUME FileInv, \A f \in Files : given[f].handle = -1
    PROVE  alloc_handle = 1
<1> DEFINE free == {i \in 1..MaxHandles : ~(handles[i].file # NoFile)}
<1>1. \A h \in 1..MaxHandles : handles[h].file = NoFile
  <2>1. ASSUME NEW h \in 1..MaxHandles, handles[h].file \in Files PROVE FALSE
    <3>1. given[handles[h].file].handle = h
      BY <2>1 DEF FileInv, Owners
    <3> QED BY <2>1, <3>1
  <2>2. \A h \in 1..MaxHandles : handles[h].file \in Files \cup {NoFile}
    BY DEF FileInv, FileTypes
  <2> QED BY <2>1, <2>2
<1>2. alloc_handle = IF free = {} THEN 0 ELSE CHOOSE i \in free : \A j \in free : i <= j
  BY DEF alloc_handle, FirstFree
<1>3. free = 1..MaxHandles /\ 1 \in 1..MaxHandles
  BY <1>1, RuntimeAssumption
<1>4. alloc_handle = CHOOSE i \in 1..MaxHandles : \A j \in 1..MaxHandles : i <= j
  BY <1>2, <1>3
<1>5. \A i \in 1..MaxHandles : (\A j \in 1..MaxHandles : i <= j) => i = 1
  BY <1>3
<1>6. \A j \in 1..MaxHandles : 1 <= j
  OBVIOUS
<1> QED BY <1>3, <1>4, <1>5, <1>6

\* With no output buffer used there is a free one.
LEMMA FirstObuf ==
    ASSUME \A o \in 1..MaxObufs : ~obufs[o].used
    PROVE  alloc_obuf \in 1..MaxObufs
<1> DEFINE free == {i \in 1..MaxObufs : ~obufs[i].used}
<1>1. alloc_obuf = IF free = {} THEN 0 ELSE CHOOSE i \in free : \A j \in free : i <= j
  BY DEF alloc_obuf, FirstFree
<1>2. free # {} /\ free \subseteq Nat /\ free \subseteq 1..MaxObufs
  BY RuntimeAssumption
<1> HIDE DEF free
<1>3. \E i \in free : \A j \in free : i <= j
  BY <1>2, LeastNatural
<1> QED BY <1>1, <1>2, <1>3

\* A text of which the other is a beginning, when together they are nothing or
\* all that is wanted.
LEMMA NothingOrAll ==
    ASSUME NEW d \in Text, NEW x \in Text, NEW want \in Text, d \o x \in {<<>>, want}
    PROVE  IsPrefix(d, want) /\ IsPrefix(d \o x, want) /\ IsPrefix(d, d \o x)
<1>1. CASE d \o x = want
  BY <1>1, Beginnings
<1>2. CASE d \o x = <<>>
  <2>1. d = <<>>
    BY <1>2 DEF Text
  <2> QED BY <1>2, <2>1, Beginnings
<1> QED BY <1>1, <1>2

\* The status of hcc1, seen through the refinement.
LEMMA Cc1Seen ==
    /\ Active("hcc1") => Cc1Status = IF Cc1Open THEN "writing" ELSE "reading"
    /\ stage # "hcc1" \/ exited # "no" => Cc1Status = Rest("hcc1")
BY DEF Active, Cc1Status, Status, Outcome, Rest, Cc1Open

\* A line, or the rest of one, is put into the output buffer.
LEMMA LinePut ==
    ASSUME PipeInv, hccWriteTransactionLine, GoodObuf(ret)
    PROVE  /\ GoodObuf(ret)' /\ ret' = ret
           /\ obufs'[ret].data \o LinesText(lines') = obufs[ret].data \o LinesText(lines)
<1> DEFINE data == obufs[ret].data
<1>0. lines \in Seq(Text) /\ lines # <<>> /\ ret' = ret
  BY DEF PipeInv, Order, hccWriteTransactionLine
<1>1. ret \in 1..MaxObufs /\ obufs[ret] \in ObufRecord /\ data \in Text
  BY GoodObufHas DEF PipeInv
<1>2. ASSUME NEW cs, hcc_obuf_put(ret, cs)
      PROVE  obufs'[ret].data = data \o cs /\ obufs'[ret].used
  <2> DEFINE cap == ensure_chars(obufs[ret].cap, Len(obufs[ret].data) + Len(cs))
  <2>1. obufs' = [obufs EXCEPT ![ret].data = @ \o cs, ![ret].cap = ensure_chars(@, Len(obufs[ret].data) + Len(cs))]
    BY <1>2 DEF hcc_obuf_put
  <2>2. obufs \in [1..MaxObufs -> ObufRecord]
    BY DEF PipeInv, BufInv, ObufTypes, ObufRecord
  <2>3. obufs'[ret] = [obufs[ret] EXCEPT !.data = @ \o cs, !.cap = ensure_chars(@, Len(obufs[ret].data) + Len(cs))]
    BY <1>1, <2>1, <2>2
  <2>4. obufs[ret].used
    BY DEF GoodObuf
  <2> QED BY <1>1, <2>3, <2>4 DEF ObufRecord
<1>3. lines[1] \in Text
  BY <1>0
<1>4. CASE lines[1] # <<>>
  <2> DEFINE b == FirstOf(lines[1])
             c == After(lines[1], Piece(lines[1]))
             rest == LinesText([lines EXCEPT ![1] = c])
  <2>1. hcc_obuf_put(ret, b) /\ lines' = [lines EXCEPT ![1] = c]
    BY <1>4 DEF hccWriteTransactionLine
  <2>2. b \in Text /\ c \in Text /\ lines[1] = b \o c
    BY <1>3, <1>4, Pieces
  <2>3. obufs'[ret].data = data \o b /\ obufs'[ret].used
    BY <1>2, <2>1
  <2>4. LinesText(lines) = b \o rest /\ rest \in Text /\ rest = LinesText(lines')
    <3>1. [lines EXCEPT ![1] = c] \in Seq(Text) /\ LinesText(lines) = b \o rest
      <4> HIDE DEF b, c
      <4> QED BY <1>0, <2>2, LineCutShort
    <3>2. rest \in Text
      BY <3>1, LinesTextIs
    <3> QED BY <2>1, <3>1, <3>2
  <2> HIDE DEF b, c, rest, data
  <2>5. (data \o b) \o rest = data \o (b \o rest)
    <3>1. Associates(data, b, rest)
      BY <1>1, <2>2, <2>4, TextAssociates
    <3> QED BY <3>1 DEF Associates
  <2>6. obufs'[ret].data \o LinesText(lines') = data \o LinesText(lines)
    BY <2>3, <2>4, <2>5
  <2> QED BY <1>0, <1>1, <2>3, <2>6 DEF GoodObuf, data
<1>5. CASE lines[1] = <<>>
  <2> DEFINE nl == <<"nl">>
             rest == LinesText(Tail(lines))
  <2>1. hcc_obuf_put(ret, nl) /\ lines' = Tail(lines)
    BY <1>5 DEF hccWriteTransactionLine
  <2>2. nl \in Text
    <3>1. "nl" \in Chars
      BY LinesAssumption
    <3> QED BY <3>1 DEF Text
  <2>3. obufs'[ret].data = data \o nl /\ obufs'[ret].used
    BY <1>2, <2>1
  <2>4. LinesText(lines) = nl \o rest /\ rest \in Text /\ rest = LinesText(lines')
    <3>1. LinesText(lines) = Append(lines[1], "nl") \o LinesText(Tail(lines))
      BY <1>0, LinesTextIs
    <3>2. Append(lines[1], "nl") = nl
      BY <1>5
    <3>3. Tail(lines) \in Seq(Text)
      BY <1>0
    <3>4. rest \in Text
      BY <3>3, LinesTextIs
    <3> QED BY <2>1, <3>1, <3>2, <3>4
  <2> HIDE DEF nl, rest, data
  <2>5. (data \o nl) \o rest = data \o (nl \o rest)
    <3>1. Associates(data, nl, rest)
      BY <1>1, <2>2, <2>4, TextAssociates
    <3> QED BY <3>1 DEF Associates
  <2>6. obufs'[ret].data \o LinesText(lines') = data \o LinesText(lines)
    BY <2>3, <2>4, <2>5
  <2> QED BY <1>0, <1>1, <2>3, <2>6 DEF GoodObuf, data
<1> QED BY <1>4, <1>5

\* A new output buffer is empty.
LEMMA NewObuf ==
    ASSUME PipeInv, \A o \in 1..MaxObufs : ~obufs[o].used, NEW cap, hcc_obuf_new(cap)
    PROVE  GoodObuf(ret)' /\ obufs'[ret'].data = <<>>
<1>1. alloc_obuf \in 1..MaxObufs /\ alloc_obuf # 0
  <2>1. alloc_obuf \in 1..MaxObufs
    BY FirstObuf
  <2> QED BY <2>1
<1> DEFINE c == IF cap > 0 THEN cap ELSE FirstCap
<1>2. ret' = alloc_obuf /\ obufs' = [obufs EXCEPT ![alloc_obuf] = [used |-> TRUE, data |-> <<>>, cap |-> c]]
  BY <1>1 DEF hcc_obuf_new
<1>3. DOMAIN obufs = 1..MaxObufs
  BY DEF PipeInv, BufInv, ObufTypes
<1> HIDE DEF c
<1>4. obufs'[alloc_obuf] = [used |-> TRUE, data |-> <<>>, cap |-> c]
  BY <1>1, <1>2, <1>3
<1>5. obufs'[alloc_obuf].used = TRUE /\ obufs'[alloc_obuf].data = <<>>
  BY <1>4
<1>6. obufs'[ret'].used /\ obufs'[ret'].data = <<>> /\ ret' \in 1..MaxObufs
  BY <1>1, <1>2, <1>5
<1> QED BY <1>6 DEF GoodObuf

\* What hcc1 hands to its one handle.
LEMMA AllWritten ==
    ASSUME PipeInv, Ready, stage = "hcc1", given["r"] = [handle |-> 1, text |-> <<>>], GoodObuf(ret),
           hcc_obuf_write(1, ret)
    PROVE  /\ UNCHANGED <<exited, disk>>
           /\ given'["r"] = [handle |-> 1, text |-> obufs[ret].data]
<1>0. "r" \in Files /\ 1 \in 1..MaxHandles
  BY PipelineAssumption, RuntimeAssumption
<1>1. handles[1].file = "r"
  BY <1>0 DEF PipeInv, FileInv, Owners
<1>2. GoodHandle(1)
  BY <1>0, <1>1, RuntimeAssumption DEF GoodHandle
<1>3. obufs[ret].data \in Text
  BY GoodObufHas DEF PipeInv
<1>4. CASE obufs[ret].data = <<>>
  <2>1. UNCHANGED <<exited, given, disk>>
    BY <1>2, <1>4 DEF hcc_obuf_write
  <2> QED BY <1>4, <2>1
<1>5. CASE obufs[ret].data # <<>>
  <2>1. /\ UNCHANGED <<exited, disk>>
        /\ given' = [g \in Files |->
                IF given[g].handle = 1 THEN [given[g] EXCEPT !.text = @ \o obufs[ret].data] ELSE given[g]]
    BY <1>2, <1>5 DEF hcc_obuf_write
  <2>2. given["r"].handle = 1 /\ given["r"].text = <<>>
    OBVIOUS
  <2>3. given'["r"] = [given["r"] EXCEPT !.text = @ \o obufs[ret].data]
    BY <1>0, <2>1, <2>2
  <2>4. given'["r"] = [handle |-> 1, text |-> <<>> \o obufs[ret].data]
    BY <2>3
  <2>5. <<>> \o obufs[ret].data = obufs[ret].data
    BY <1>3, EmptyEnds
  <2> QED BY <2>1, <2>4, <2>5
<1> QED BY <1>4, <1>5

\* The handle that answers the only opening.
LEMMA FirstOpened ==
    ASSUME PipeInv, stage = "hcc1", \A f \in Files : given[f].handle = -1, hcc_open_write("r")
    PROVE  \/ ret' = 0 /\ given' = given /\ disk' = disk
           \/ ret' = 1 /\ given'["r"] = [handle |-> 1, text |-> <<>>] /\ disk'["r"] = <<>>
<1>0. "r" \in Files
  BY PipelineAssumption
<1>1. alloc_handle = 1
  BY FirstHandle DEF PipeInv
<1>2. DOMAIN given = Files /\ DOMAIN disk = Files
  <2>1. given \in [Files -> [handle : {-1, 0} \cup 1..MaxHandles, text : Text]]
    BY DEF PipeInv, FileInv, FileTypes
  <2>2. disk = [f \in Files |-> disk[f]]
    BY DEF PipeInv, FileInv, FileTypes
  <2>3. DOMAIN disk = Files
    BY <2>2
  <2> QED BY <2>1, <2>3
<1>3. \/ ret' = 0 /\ given' = given /\ disk' = disk
      \/ /\ disk' = [disk EXCEPT !["r"] = <<>>] /\ ret' = alloc_handle
         /\ given' = [given EXCEPT !["r"] = [handle |-> alloc_handle, text |-> <<>>]]
  BY DEF hcc_open_write
<1> QED BY <1>0, <1>1, <1>2, <1>3

\* Every step of hcc1 implements one of Publish, or is not seen.
LEMMA Cc1Step ==
    ASSUME PipeInv, PipeInv', Texts, Texts', Cc1Told, [Next]_vars
    PROVE  Cc1Told' /\ [Cc1Publish!Next]_(Cc1Publish!pubVars)
<1> DEFINE d == disk["r"]
           d2 == disk'["r"]
           x == OnItsWay("r") \o KeptOf("r")
<1>0. /\ "r" \in Files /\ d \in Text /\ d2 \in Text /\ <<>> \in Text
  BY PipelineAssumption DEF Texts, Text
<1> USE DEF Cc1Publish!pubVars
<1>1. CASE ~Active("hcc1")
  <2>0. Begun("hcc1") \/ Waiting("hcc1")
    BY <1>1, NotRunning DEF Programs
  <2>1. Cc1Status = Rest("hcc1") /\ Rest("hcc1") \in {"idle", "done", "failed"}
    BY <1>1, Cc1Seen, RestType DEF Programs, Active
  <2>2. CASE Begun("hcc1")
    <3>1. /\ stage' = "hcc1" /\ exited' = "no" /\ pc' = "read" /\ disk'["r"] = disk["r"] /\ out'.rest = <<>>
          /\ obufs' = [o \in 1..MaxObufs |-> FreeObuf]
      BY <2>2 DEF Begun, FileOf, Fresh, NoWrite
    <3>2. Cc1Told'
      BY <3>1 DEF Cc1Told, FreeObuf
    <3>3. Cc1Status' = "reading"
      BY <3>1 DEF Cc1Status, Status
    <3>4. Cc1Publish!Start
      BY <2>1, <3>1, <3>3 DEF Cc1Publish!Start, Cc1Publish!Stopped
    <3> QED BY <3>2, <3>4 DEF Cc1Publish!Next
  <2>3. CASE Waiting("hcc1")
    <3>1. disk'["r"] = disk["r"] /\ Rest("hcc1")' = Rest("hcc1") /\ ~Active("hcc1")'
      BY <2>3 DEF Waiting, FileOf, Active
    <3>2. Cc1Status' = Cc1Status
      <4>1. Cc1Status' = Rest("hcc1")'
        BY <3>1 DEF Cc1Status, Status, Rest, Active
      <4> QED BY <2>1, <3>1, <4>1
    <3>3. Want(Cc1Status)' = Want(Cc1Status)
      BY <2>1, <3>2 DEF Want
    <3>4. Cc1Told'
      BY <3>1 DEF Cc1Told
    <3> QED BY <3>1, <3>2, <3>3, <3>4
  <2> QED BY <2>0, <2>2, <2>3
<1>2. CASE Active("hcc1")
  <2>0. /\ stage = "hcc1" /\ exited = "no"
        /\ pc \in {"read", "parse", "same", "opened", "line", "write", "flush", "free", "close",
                   "exit", "refused"}
        /\ pc \in {"read", "parse", "same", "opened", "line", "write"} => out.rest = <<>>
        /\ pc \in {"read", "parse", "same", "opened"} => \A o \in 1..MaxObufs : ~obufs[o].used
        /\ pc \notin {"read", "parse"} => should = Ir(todo)
        /\ pc = "opened" /\ ret = 0 => given["r"].handle = -1
        /\ (pc = "opened" /\ ret # 0) \/ pc \in {"line", "write"} =>
              given["r"] = [handle |-> 1, text |-> <<>>]
        /\ pc \in {"line", "write"} => GoodObuf(ret)
        /\ pc = "line" => obufs[ret].data \o LinesText(lines) = LinesText(Printed(todo))
        /\ pc = "write" => Lowered(todo) /\ obufs[ret].data = should.text
        /\ pc \in {"flush", "free", "close"} => given["r"] = [handle |-> 1, text |-> should.text]
        /\ pc \in {"exit", "refused"} => given["r"] = [handle |-> 0, text |-> should.text]
        /\ pc = "exit" => Lowered(todo)
    BY <1>2 DEF Active, Cc1Told
  <2>a. out.rest \in Text /\ todo \in Text /\ todo' \in Text
    BY <2>0 DEF PipeInv, FileInv, FileTypes, Order
  <2>b. Cc1Status = IF Cc1Open THEN "writing" ELSE "reading"
    BY <1>2, Cc1Seen
  <2>w. Cc1Status = "writing" => Want(Cc1Status) = should
    BY DEF Want
  <2>c. ASSUME stage' = "hcc1", exited' = "no" PROVE Cc1Status' = IF Cc1Open' THEN "writing" ELSE "reading"
    BY <2>c DEF Cc1Status, Status, Cc1Open
  <2>d. ASSUME stage' = "hcc1", exited' = "no", ~Cc1Open, ~Cc1Open', disk' = disk
        PROVE  UNCHANGED Cc1Publish!pubVars
    BY <2>b, <2>c, <2>d DEF Want
  <2>t. Cc1Open => /\ should.text \in Text /\ given["r"].text \in {<<>>, should.text}
                   /\ given["r"].handle >= 0 /\ should = Ir(todo)
    <3>1. Cc1Open => should = Ir(todo)
      BY <2>0 DEF Cc1Open
    <3>2. Cc1Open => should.text \in Text
      BY <2>a, <3>1, IrType
    <3>3. Cc1Open => \/ given["r"] = [handle |-> 1, text |-> <<>>]
                     \/ given["r"] = [handle |-> 1, text |-> should.text]
                     \/ given["r"] = [handle |-> 0, text |-> should.text]
      BY <2>0 DEF Cc1Open
    <3> QED BY <3>1, <3>2, <3>3
  <2>u. Cc1Open => given["r"].text = d \o x
    BY <1>0, <2>0, <2>t DEF PipeInv, FileInv, Faithful
  <2>v. ~Cc1Open => x = <<>>
    <3>1. ~Cc1Open => out.rest = <<>> /\ given["r"].handle = -1
      BY <1>0, <2>0 DEF Cc1Open, PipeInv, Order
    <3>2. ~Cc1Open => OnItsWay("r") = <<>> /\ KeptOf("r") = <<>>
      BY <3>1 DEF OnItsWay, KeptOf
    <3> QED BY <1>0, <3>2, EmptyEnds
  <2>x. x \in Text
    <3>1. OnItsWay("r") \in Text
      BY <1>0, <2>a DEF OnItsWay
    <3>2. KeptOf("r") \in Text
      <4>1. /\ given["r"].handle \in {-1, 0} \cup 1..MaxHandles
            /\ handles \in [1..MaxHandles -> [file : Files \cup {NoFile}, kept : Text]]
        BY <1>0 DEF PipeInv, FileInv, FileTypes
      <4>2. CASE given["r"].handle >= 1
        <5>1. given["r"].handle \in 1..MaxHandles
          BY <4>1, <4>2
        <5>2. handles[given["r"].handle] \in [file : Files \cup {NoFile}, kept : Text]
          BY <4>1, <5>1
        <5> QED BY <4>2, <5>2 DEF KeptOf
      <4>3. CASE ~(given["r"].handle >= 1)
        BY <1>0, <4>3 DEF KeptOf
      <4> QED BY <4>2, <4>3
    <3> QED BY <3>1, <3>2, Joins
  <2>e. ASSUME stage' = "hcc1", exited' \in {"fail", "killed"}, d2 = d \/ d2 = d \o x
        PROVE  Cc1Told' /\ Cc1Publish!Next
    <3>1. Cc1Status' = "failed" /\ Cc1Told'
      BY <2>e DEF Cc1Status, Status, Outcome, Cc1Told, Active
    <3>2. CASE ~Cc1Open
      <4>1. d2 = d
        BY <1>0, <2>e, <2>v, <3>2, EmptyEnds
      <4> QED BY <2>b, <3>1, <3>2, <4>1 DEF Cc1Publish!Next, Cc1Publish!Fail
    <3>3. CASE Cc1Open
      <4>1. IsPrefix(d, should.text) /\ IsPrefix(d \o x, should.text) /\ IsPrefix(d, d \o x)
        <5> DEFINE w == should.text
        <5>1. d \o x \in {<<>>, w} /\ w \in Text
          BY <2>t, <2>u, <3>3
        <5> HIDE DEF d, x, w
        <5>2. IsPrefix(d, w) /\ IsPrefix(d \o x, w) /\ IsPrefix(d, d \o x)
          BY <1>0, <2>x, <5>1, NothingOrAll
        <5> QED BY <5>2 DEF w
      <4>2. IsPrefix(d, d)
        BY <1>0, Beginnings
      <4>3. IsPrefix(d, d2) /\ IsPrefix(d2, should.text)
        BY <2>e, <4>1, <4>2
      <4>4. Cc1Publish!IsPrefix(disk["r"], disk'["r"]) /\ Cc1Publish!IsPrefix(disk'["r"], should.text)
        BY <4>3, SameBeginnings
      <4> QED BY <2>b, <2>w, <3>1, <3>3, <4>4 DEF Cc1Publish!Next, Cc1Publish!Fail
    <3> QED BY <3>2, <3>3
  \* A step that leaves the file open.
  <2>f. ASSUME stage' = "hcc1", exited' = "no", Cc1Open, Cc1Open', should' = should, Cc1Told', IsPrefix(d, d2)
        PROVE  Cc1Publish!Next
    <3>1. Cc1Status = "writing" /\ Cc1Status' = "writing"
      BY <2>b, <2>c, <2>f
    <3>2. \/ given'["r"] = [handle |-> 1, text |-> <<>>]
          \/ given'["r"] = [handle |-> 1, text |-> should'.text]
          \/ given'["r"] = [handle |-> 0, text |-> should'.text]
      BY <2>f DEF Cc1Told, Active, Cc1Open
    <3>3. given'["r"].handle >= 0 /\ given'["r"].text \in {<<>>, should.text}
      BY <2>f, <3>2
    <3>4. given'["r"].text = d2 \o (OnItsWay("r")' \o KeptOf("r")')
      BY <1>0, <2>f, <3>3 DEF PipeInv, FileInv, Faithful
    <3>5. OnItsWay("r")' \o KeptOf("r")' \in Text
      <4>1. out'.rest \in Text
        BY <2>f DEF PipeInv, FileInv, FileTypes
      <4>2. OnItsWay("r")' \in Text
        BY <1>0, <4>1 DEF OnItsWay
      <4>3. /\ given'["r"].handle \in {-1, 0} \cup 1..MaxHandles
            /\ handles' \in [1..MaxHandles -> [file : Files \cup {NoFile}, kept : Text]]
        BY <1>0 DEF PipeInv, FileInv, FileTypes
      <4>4. KeptOf("r")' \in Text
        <5>1. CASE given'["r"].handle >= 1
          <6>1. given'["r"].handle \in 1..MaxHandles
            BY <4>3, <5>1
          <6>2. handles'[given'["r"].handle] \in [file : Files \cup {NoFile}, kept : Text]
            BY <4>3, <6>1
          <6> QED BY <5>1, <6>2 DEF KeptOf
        <5>2. CASE ~(given'["r"].handle >= 1)
          BY <1>0, <5>2 DEF KeptOf
        <5> QED BY <5>1, <5>2
      <4> QED BY <4>2, <4>4, Joins
    <3>6. IsPrefix(d2, should.text)
      <4> DEFINE w == should.text
                 y == OnItsWay("r")' \o KeptOf("r")'
      <4>1. d2 \o y \in {<<>>, w} /\ w \in Text /\ y \in Text
        BY <2>f, <2>t, <3>3, <3>4, <3>5
      <4> HIDE DEF d2, y, w
      <4>2. IsPrefix(d2, w)
        BY <1>0, <4>1, NothingOrAll
      <4> QED BY <4>2 DEF w
    <3>7. Cc1Publish!IsPrefix(disk["r"], disk'["r"]) /\ Cc1Publish!IsPrefix(disk'["r"], should.text)
      BY <2>f, <3>6, SameBeginnings
    <3>8. Want(Cc1Status)' = should /\ Want(Cc1Status) = should
      BY <2>f, <2>w, <3>1 DEF Want
    <3> QED BY <3>1, <3>7, <3>8 DEF Cc1Publish!Next, Cc1Publish!Extend
  <2>g. IsPrefix(d, d)
    BY <1>0, Beginnings
  <2> HIDE DEF d, d2, x
  <2>1. CASE Killed
    <3>1. exited' = "killed" /\ stage' = stage /\ disk' = disk
      BY <2>1 DEF Killed, driverVars
    <3> QED BY <2>0, <2>e, <3>1 DEF d, d2
  <2>2. CASE UNCHANGED vars
    <3>1. UNCHANGED <<m2, exited, stage, pc, out, disk, should, obufs, given, ret, lines, todo, last>>
      BY <2>2 DEF vars, runtimeVars, driverVars
    <3>2. Cc1Status' = Cc1Status
      BY <3>1 DEF Cc1Status, Status, Outcome
    <3>3. Want(Cc1Status)' = Want(Cc1Status)
      BY <3>1, <3>2 DEF Want
    <3>4. Cc1Told'
      <4>1. \A o : GoodObuf(o)' = GoodObuf(o)
        BY <3>1 DEF GoodObuf
      <4> QED BY <2>0, <3>1, <4>1 DEF Cc1Told, Active
    <3> QED BY <3>1, <3>2, <3>3, <3>4
  <2>3. CASE Running /\ hcc_exit_failure
    <3>1. stage' = "hcc1"
      BY <2>0, <2>3 DEF Running, Hcc1, HsWriting, driverVars, Cc1Read, Cc1Refuse, Cc1Parse, Cc1SamePath,
         hccWithOpenWriteFile, Cc1NotOpened, hccWithObuf, hccWriteTransactionLine, Cc1Lowered,
         Cc1Write, Cc1Flush, Cc1Free, Cc1Close, Cc1Die, hccExitSuccess, Reading, Keep
    <3>2. exited' = "fail" /\ (d2 = d \/ d2 = d \o x)
      <4>1. d2 = d \/ d2 = d \o x
        BY <1>0, <2>0, <2>3, GivenUp DEF d, d2, x
      <4> QED BY <2>3, <4>1 DEF hcc_exit_failure
    <3> QED BY <2>e, <3>1, <3>2
  <2>4. CASE Running /\ Cc1Read
    <3>1. pc = "read" /\ pc' = "parse" /\ UNCHANGED <<stage, exited, out, disk, obufs>>
      BY <2>4 DEF Cc1Read, Reading, Io
    <3>2. ~Cc1Open /\ ~Cc1Open'
      BY <3>1 DEF Cc1Open
    <3>3. Cc1Told'
      BY <2>0, <3>1 DEF Cc1Told, Active
    <3> QED BY <2>0, <2>d, <3>1, <3>2, <3>3
  <2>5. CASE Running /\ Cc1Parse
    <3>1. pc = "parse" /\ pc' = "same" /\ UNCHANGED <<stage, exited, out, disk, obufs>>
      BY <2>5 DEF Cc1Parse, Io, Keep
    <3>2. ~Cc1Open /\ ~Cc1Open'
      BY <3>1 DEF Cc1Open
    <3>3. should' = Ir(todo')
      BY <2>5, <3>1 DEF Running
    <3>4. Cc1Told'
      BY <2>0, <3>1, <3>3 DEF Cc1Told, Active
    <3> QED BY <2>0, <2>d, <3>1, <3>2, <3>4
  <2>6. CASE Running /\ hccWithOpenWriteFile
    <3>1. /\ pc = "same" /\ pc' = "opened" /\ UNCHANGED <<stage, exited, out, obufs, todo>>
          /\ hcc_open_write(FileAt(path)) /\ ret = 1 /\ ~SamePath
      BY <2>6 DEF hccWithOpenWriteFile, Goto, Keep
    <3>2. should' = Ir(todo')
      <4>1. should' = should
        BY <2>6, <3>1 DEF Running
      <4> QED BY <2>0, <3>1, <4>1
    <3>3. FileAt(path) = "r"
      BY <2>0, <3>1, OutputIsOwn DEF Opens
    <3>4. \A f \in Files : given[f].handle = -1
      BY <2>0, <3>1 DEF PipeInv, Order
    <3>5. \/ ret' = 0 /\ given' = given /\ disk' = disk
          \/ ret' = 1 /\ given'["r"] = [handle |-> 1, text |-> <<>>] /\ disk'["r"] = <<>>
      BY <2>0, <3>1, <3>3, <3>4, FirstOpened
    <3>6. Cc1Told'
      BY <1>0, <2>0, <3>1, <3>2, <3>4, <3>5 DEF Cc1Told, Active
    <3>7. ~Cc1Open
      BY <3>1 DEF Cc1Open
    <3>8. CASE ret' = 0
      <4>1. ~Cc1Open' /\ disk' = disk
        BY <3>1, <3>5, <3>8 DEF Cc1Open
      <4> QED BY <2>0, <2>d, <3>1, <3>6, <3>7, <4>1
    <3>9. CASE ret' # 0
      <4>1. Cc1Open' /\ disk'["r"] = <<>>
        BY <3>1, <3>5, <3>9 DEF Cc1Open
      <4>2. Cc1Status = "reading" /\ Cc1Status' = "writing"
        BY <2>0, <2>b, <2>c, <3>1, <3>7, <4>1
      <4> QED BY <3>6, <4>1, <4>2 DEF Cc1Publish!Next, Cc1Publish!Open
    <3> QED BY <3>8, <3>9
  <2>7. CASE Running /\ hccWithObuf
    <3>1. /\ pc = "opened" /\ pc' = "line" /\ UNCHANGED <<stage, exited, out, disk, todo, given>>
          /\ ret # 0 /\ hcc_obuf_new(FirstCap) /\ lines' = Printed(todo)
      BY <2>7 DEF hccWithObuf, Io, Keep
    <3>2. should' = should
      BY <2>7, <3>1 DEF Running
    <3>3. GoodObuf(ret)' /\ obufs'[ret'].data = <<>>
      BY <2>0, <3>1, NewObuf
    <3>4. obufs'[ret'].data \o LinesText(lines') = LinesText(Printed(todo'))
      <4>1. LinesText(Printed(todo)) \in Text
        BY <2>a, PrintedType, LinesTextIs
      <4>2. <<>> \o LinesText(Printed(todo)) = LinesText(Printed(todo))
        BY <4>1, EmptyEnds
      <4> QED BY <3>1, <3>3, <4>2
    <3>5. Cc1Told'
      BY <2>0, <3>1, <3>2, <3>3, <3>4 DEF Cc1Told, Active
    <3>6. Cc1Open /\ Cc1Open' /\ d2 = d
      BY <3>1 DEF Cc1Open, d, d2
    <3> QED BY <2>0, <2>f, <2>g, <3>1, <3>2, <3>5, <3>6
  <2>8. CASE Running /\ hccWriteTransactionLine
    <3>1. pc = "line" /\ UNCHANGED <<pc, stage, exited, out, disk, todo, given>>
      BY <2>8 DEF hccWriteTransactionLine, Io, Keep
    <3>2. should' = should
      BY <2>8, <3>1 DEF Running
    <3>3. /\ GoodObuf(ret)' /\ ret' = ret
          /\ obufs'[ret].data \o LinesText(lines') = obufs[ret].data \o LinesText(lines)
      BY <2>0, <2>8, <3>1, LinePut
    <3>4. obufs'[ret'].data \o LinesText(lines') = LinesText(Printed(todo'))
      BY <2>0, <3>1, <3>3
    <3>5. Cc1Told'
      BY <2>0, <3>1, <3>2, <3>3, <3>4 DEF Cc1Told, Active
    <3>6. Cc1Open /\ Cc1Open' /\ d2 = d
      BY <3>1 DEF Cc1Open, d, d2
    <3> QED BY <2>0, <2>f, <2>g, <3>1, <3>2, <3>5, <3>6
  <2>9. CASE Running /\ Cc1Lowered
    <3>1. /\ pc = "line" /\ pc' = (IF Lowered(todo) THEN "write" ELSE "free") /\ lines = <<>>
          /\ UNCHANGED <<stage, exited, out, disk, todo, given, ret, obufs>>
      BY <2>9 DEF Cc1Lowered, hccWithTransactionalLineWriter, Io, Keep
    <3>2. should' = should
      BY <2>9, <3>1 DEF Running
    <3>3. GoodObuf(ret)'
      BY <2>0, <3>1 DEF GoodObuf
    <3>4. should = Ir(todo) /\ Ir(todo).text = IF Lowered(todo) THEN LinesText(Printed(todo)) ELSE <<>>
      BY <2>0, <2>a, <3>1, IrType
    <3>5. obufs[ret].data = LinesText(Printed(todo))
      <4>1. obufs[ret].data \in Text
        BY <2>0, <3>1, GoodObufHas DEF PipeInv
      <4>2. <<>> \in Seq(Text) /\ lines = <<>>
        BY <3>1
      <4>3. LinesText(lines) = <<>>
        BY <4>2, LinesTextIs
      <4>4. obufs[ret].data \o <<>> = obufs[ret].data
        BY <4>1, EmptyEnds
      <4> QED BY <2>0, <3>1, <4>3, <4>4
    <3>6. Cc1Told'
      <4>1. CASE Lowered(todo)
        <5>1. pc' = "write" /\ obufs'[ret'].data = should'.text /\ Lowered(todo')
          BY <3>1, <3>2, <3>4, <3>5, <4>1
        <5> QED BY <2>0, <3>1, <3>2, <3>3, <5>1 DEF Cc1Told, Active
      <4>2. CASE ~Lowered(todo)
        <5>1. pc' = "free" /\ should'.text = <<>>
          BY <3>1, <3>2, <3>4, <4>2
        <5> QED BY <2>0, <3>1, <3>2, <5>1 DEF Cc1Told, Active
      <4> QED BY <4>1, <4>2
    <3>7. Cc1Open /\ Cc1Open' /\ d2 = d
      BY <3>1 DEF Cc1Open, d, d2
    <3> QED BY <2>0, <2>f, <2>g, <3>1, <3>2, <3>6, <3>7
  <2>10. CASE Running /\ Cc1Write
    <3>1. pc = "write" /\ pc' = "flush" /\ Ready /\ UNCHANGED <<stage, todo>> /\ hcc_obuf_write(1, ret)
      BY <2>10 DEF Cc1Write, Goto, Keep
    <3>2. should' = should
      BY <2>10, <3>1 DEF Running
    <3>3. UNCHANGED <<exited, disk>> /\ given'["r"] = [handle |-> 1, text |-> obufs[ret].data]
      BY <2>0, <3>1, AllWritten
    <3>4. Cc1Told'
      BY <2>0, <3>1, <3>2, <3>3 DEF Cc1Told, Active
    <3>5. Cc1Open /\ Cc1Open' /\ d2 = d
      BY <3>1, <3>3 DEF Cc1Open, d, d2
    <3> QED BY <2>0, <2>f, <2>g, <3>1, <3>2, <3>3, <3>4, <3>5
  <2>h. ASSUME pc \in {"flush", "free", "close"} PROVE GoodHandle(1) /\ given["r"].handle = 1
    <3>1. given["r"].handle = 1
      BY <2>0, <2>h
    <3>2. 1 \in 1..MaxHandles
      BY RuntimeAssumption
    <3>3. handles[1].file = "r"
      BY <1>0, <3>1, <3>2 DEF PipeInv, FileInv, Owners
    <3> QED BY <1>0, <3>1, <3>2, <3>3, RuntimeAssumption DEF GoodHandle
  <2>11. CASE Running /\ (Cc1Flush \/ Cc1Free)
    <3>1. /\ pc \in {"flush", "free"} /\ pc' = (IF pc = "flush" THEN "free" ELSE "close")
          /\ UNCHANGED <<stage, todo, given>>
      BY <2>11 DEF Cc1Flush, Cc1Free, Goto, Keep
    <3>2. should' = should
      BY <2>11, <3>1 DEF Running
    <3>3. UNCHANGED <<exited, disk>>
      BY <2>11, <2>h, <3>1 DEF Cc1Flush, Cc1Free, hcc_handle_flush, Io
    <3>4. Cc1Told'
      BY <2>0, <3>1, <3>2, <3>3 DEF Cc1Told, Active
    <3>5. Cc1Open /\ Cc1Open' /\ d2 = d
      BY <3>1, <3>3 DEF Cc1Open, d, d2
    <3> QED BY <2>0, <2>f, <2>g, <3>1, <3>2, <3>3, <3>4, <3>5
  <2>12. CASE Running /\ Cc1Close /\ ~hcc_exit_failure
    <3>1. /\ pc = "close" /\ pc' = (IF Lowered(todo) THEN "exit" ELSE "refused")
          /\ UNCHANGED <<stage, todo>> /\ hcc_close(1)
      BY <2>12 DEF Cc1Close, Goto, Keep
    <3>2. should' = should
      BY <2>12, <3>1 DEF Running
    <3>3. /\ UNCHANGED <<exited, disk>>
          /\ given' = [g \in Files |-> IF given[g].handle = 1 THEN [given[g] EXCEPT !.handle = 0] ELSE given[g]]
      BY <2>12, <2>h, <3>1 DEF hcc_close, output_failure
    <3>4. given'["r"] = [handle |-> 0, text |-> should.text]
      <4>1. given["r"] = [handle |-> 1, text |-> should.text]
        BY <2>0, <3>1
      <4>2. given'["r"] = [given["r"] EXCEPT !.handle = 0]
        BY <1>0, <3>3, <4>1
      <4> QED BY <4>1, <4>2
    <3>5. Cc1Told'
      BY <2>0, <3>1, <3>2, <3>3, <3>4 DEF Cc1Told, Active
    <3>6. Cc1Open /\ Cc1Open' /\ d2 = d
      BY <3>1, <3>3 DEF Cc1Open, d, d2
    <3> QED BY <2>0, <2>f, <2>g, <3>1, <3>2, <3>3, <3>5, <3>6
  <2>13. CASE Running /\ hccExitSuccess /\ ~hcc_exit_failure
    <3>1. /\ pc = "exit" /\ stage' = stage /\ exited' = "ok" /\ disk' = disk /\ out.rest = <<>>
      BY <2>13 DEF hccExitSuccess, hcc_exit_success, output_failure, Keep, Ready
    <3>2. Cc1Open /\ should = Ir(todo) /\ Lowered(todo) /\ given["r"] = [handle |-> 0, text |-> should.text]
      BY <2>0, <3>1 DEF Cc1Open
    <3>3. should.whole
      BY <2>a, <3>2, IrType
    <3>4. d = should.text
      <4>1. given["r"].text = should.text /\ given["r"].handle = 0
        BY <3>2
      <4>2. OnItsWay("r") = <<>> /\ KeptOf("r") = <<>>
        BY <3>1, <4>1 DEF OnItsWay, KeptOf
      <4>3. x = <<>>
        BY <1>0, <4>2, EmptyEnds DEF x
      <4> QED BY <1>0, <2>u, <3>2, <4>1, <4>3, EmptyEnds
    <3>5. Cc1Status = "writing" /\ Cc1Status' = "done" /\ Cc1Told'
      BY <2>0, <2>b, <3>1, <3>2 DEF Cc1Status, Status, Outcome, Cc1Told, Active
    <3> QED BY <2>w, <3>1, <3>3, <3>4, <3>5 DEF Cc1Publish!Next, Cc1Publish!Succeed, d
  <2>14. CASE Running /\ HsWriting /\ ~hcc_exit_failure
    <3>1. /\ UNCHANGED <<stage, pc, todo, lines, ret, obufs, given>> /\ out.rest # <<>>
          /\ \E n \in WriteResults : checked_write(n)
      BY <2>14 DEF HsWriting, Writing, driverVars
    <3>2. should' = should /\ pc \in {"flush", "free", "close", "exit", "refused"}
      BY <2>0, <2>14, <3>1 DEF Running
    <3>3. PICK n \in WriteResults : checked_write(n)
      BY <3>1
    <3>4. PICK a, b \in Text :
                    /\ out.rest = a \o b /\ out' = [file |-> out.file, rest |-> b] /\ exited' = exited
                    /\ \A f \in Files : disk'[f] = IF f = out.file THEN disk[f] \o a ELSE disk[f]
      <4>1. FileInv /\ disk \in [Files -> Text] /\ stage # "hcc-m1"
        BY <2>0 DEF PipeInv, Texts
      <4> QED BY <2>0, <2>14, <3>1, <3>3, <4>1, WriteDisk
    <3>5. IsPrefix(d, d2)
      <4>1. d2 = d \o a \/ d2 = d
        BY <1>0, <3>4 DEF d, d2
      <4>2. IsPrefix(d, d \o a)
        BY <1>0, <3>4, Beginnings
      <4> QED BY <2>g, <4>1, <4>2
    <3>6. Cc1Told'
      BY <2>0, <3>1, <3>2, <3>4 DEF Cc1Told, Active
    <3>7. Cc1Open /\ Cc1Open'
      BY <3>1, <3>2 DEF Cc1Open
    <3> QED BY <2>0, <2>f, <3>1, <3>2, <3>4, <3>5, <3>6, <3>7
  <2>15. Running => \/ hcc_exit_failure \/ Cc1Read \/ Cc1Parse \/ hccWithOpenWriteFile \/ hccWithObuf
                    \/ hccWriteTransactionLine \/ Cc1Lowered \/ Cc1Write \/ Cc1Flush \/ Cc1Free
                    \/ Cc1Close \/ hccExitSuccess \/ HsWriting
    BY <2>0 DEF Running, Hcc1, Cc1Refuse, Cc1SamePath, Cc1NotOpened, Cc1Die, die
  <2>16. Killed \/ Running \/ UNCHANGED vars
    BY <1>2, ActiveSteps DEF Programs
  <2> QED BY <2>1, <2>2, <2>3, <2>4, <2>5, <2>6, <2>7, <2>8, <2>9, <2>10, <2>11, <2>12, <2>13, <2>14, <2>15, <2>16
<1> QED BY <1>1, <1>2

(***************************************************************************)
(* hcc-m1: the lines of the item that is being read and those still unread *)
(* are what is left of the translation.                                    *)
(***************************************************************************)
\* What has been sent to the stream, wherever it is by now.
Sent == disk["m"] \o (out.rest \o pending)

\* The rest of the translation, when some lines have been read but not printed.
ToCome(cur) == Items[cur \o LinesOf[Unread]]

\* What hcc-m1 keeps between two steps.
M1Told ==
    Active("hcc-m1") =>
        /\ pc \in {"read", "open", "header", "translate", "ferror"}
        /\ pc \in {"read", "open", "header"} =>
              out.rest = <<>> /\ ~ferror /\ pos = 0 /\ mode = "top" /\ item = <<>> /\ pending = <<>>
        /\ pc \in {"open", "header"} => should = Translation(inp)
        /\ pc = "header" => disk["m"] = <<>>
        /\ out.rest # <<>> => out.file = "m"
        /\ pc = "translate" /\ ~ferror =>
              \E cur \in Seq(Text) :
                 /\ OpenItem(cur, mode, item)
                 /\ should = [text |-> Sent \o ToCome(cur).text, whole |-> ToCome(cur).whole]
        /\ pc = "ferror" /\ ~ferror => should = [text |-> Sent, whole |-> TRUE]

\* A text without characters has no line.
LEMMA NoLine == LineEnd(<<>>) = 0 /\ LineOf(<<>>) = <<>>
<1>0. <<>> \in Text /\ Len(<<>>) = 0
  BY DEF Text
<1>1. LineEnd(<<>>) = 0
  BY <1>0, LineEndRange
<1> DEFINE ss == [i \in 1..LineEnd(<<>>) |-> IF <<>>[i] = "cr" THEN <<>> ELSE <<<<>>[i]>>]
<1>2. LineOf(<<>>) = FlattenSeq(ss)
  BY DEF LineOf
<1>3. ss \in Seq(Seq(Chars)) /\ Len(ss) = 0
  <2>1. ss = <<>>
    BY <1>1
  <2> HIDE DEF ss
  <2> QED BY <2>1
<1> HIDE DEF ss
<1>4. \A i \in 1..Len(ss) : ss[i] = <<>>
  BY <1>3
<1> QED BY <1>1, <1>2, <1>3, <1>4, FlattenNone

\* What the items give is text.
LEMMA ItemsType ==
    ASSUME NEW ls \in Seq(Text)
    PROVE  Items[ls].text \in Text /\ Items[ls].whole \in BOOLEAN /\ Items[ls] \in Outputs
<1>1. Items[ls] \in Outputs
  BY ItemsIs
<1> QED BY <1>1 DEF Outputs

\* No lines, and an empty one, are no text.
LEMMA NothingToCome ==
    /\ Items[<<>>].text = <<>> /\ Items[<<>>].whole = TRUE
    /\ Items[<<<<>>>>].text = <<>> /\ Items[<<<<>>>>].whole = TRUE
<1>0. <<>> \in Seq(Text) /\ <<>> \in Text /\ <<<<>>>> \in Seq(Text)
  BY DEF Text
<1>1. Items[<<>>] = [text |-> <<>>, whole |-> TRUE]
  <2>1. Ends(<<>>) = {}
    BY DEF Ends
  <2>2. Items[<<>>] = IF Ends(<<>>) = {} THEN [text |-> <<>>, whole |-> <<>> = <<>>]
                      ELSE [text |-> ItemText(SubSeq(<<>>, 1, Min(Ends(<<>>)))) \o Items[AfterItem(<<>>)].text,
                            whole |-> Items[AfterItem(<<>>)].whole]
    BY <1>0, ItemsIs
  <2> QED BY <2>1, <2>2
<1>2. IsItem(<<<<>>>>) /\ ItemText(<<<<>>>>) = <<>>
  <2>1. \A i \in 1..Len(<<<<>>>>) : Len(<<<<>>>>[i]) < LineCap
    BY LineCapAssumption
  <2> QED BY <2>1 DEF IsItem, ItemText
<1>3. \A n \in 1..(Len(<<<<>>>>) - 1) : ~IsItem(SubSeq(<<<<>>>>, 1, n))
  OBVIOUS
<1>4. Items[<<<<>>>> \o <<>>] = [text |-> ItemText(<<<<>>>>) \o Items[<<>>].text, whole |-> Items[<<>>].whole]
  BY <1>0, <1>2, <1>3, ItemFirst
<1>5. <<<<>>>> \o <<>> = <<<<>>>>
  BY <1>0
<1>6. Items[<<>>].text = <<>> /\ Items[<<>>].whole = TRUE
  BY <1>1
<1>7. <<>> \o <<>> = <<>>
  BY <1>0, EmptyEnds
<1>8. Items[<<<<>>>>] = [text |-> <<>>, whole |-> TRUE]
  BY <1>2, <1>4, <1>5, <1>6, <1>7
<1> QED BY <1>6, <1>8

\* What can be read is the line and what follows it, but at its end.
LEMMA LinesUnread ==
    ASSUME inp \in Text, pos \in 0..Len(inp)
    PROVE  /\ Unread \in Text /\ Line \in Text
           /\ LinesOf[Unread] \in Seq(Text) /\ LinesOf[AfterLine(Unread)] \in Seq(Text)
           /\ ~AtEof => LinesOf[Unread] = <<Line>> \o LinesOf[AfterLine(Unread)]
           /\ AtEof => LinesOf[Unread] \in {<<>>, <<<<>>>>}
<1>1. Unread \in Text /\ Line \in Text /\ AfterLine(Unread) \in Text /\ <<>> \in Text
  BY UnreadType, LineType, AfterLineType DEF Line, Text
<1>2. LinesOf[Unread] \in Seq(Text) /\ LinesOf[AfterLine(Unread)] \in Seq(Text)
  BY <1>1, LinesOfIs
<1>3. LinesOf[Unread] = IF Unread = <<>> THEN <<>> ELSE <<Line>> \o LinesOf[AfterLine(Unread)]
  BY <1>1, LinesOfIs DEF Line
<1>4. Unread = <<>> => AtEof
  BY NoLine DEF AtEof, Line
<1>5. ASSUME AtEof PROVE LinesOf[Unread] \in {<<>>, <<<<>>>>}
  <2>1. Line = <<>> /\ LineEnd(Unread) = Len(Unread)
    BY <1>5 DEF AtEof
  <2>2. AfterLine(Unread) = <<>>
    <3> DEFINE u == Unread
    <3>1. Len(u) \in Nat /\ AfterLine(u) = SubSeq(u, Len(u) + 2, Len(u))
      BY <1>1, <2>1 DEF AfterLine, Text
    <3> HIDE DEF u
    <3>2. u \in Text
      BY <1>1 DEF u
    <3>3. Len(u) + 2 \in Nat \ {0} /\ ~(Len(u) + 2 <= Len(u))
      BY <3>1
    <3>4. SubSeq(u, Len(u) + 2, Len(u)) \in Text /\ Len(SubSeq(u, Len(u) + 2, Len(u))) = 0
      BY <3>2, <3>3, RestOfText
    <3>5. AfterLine(u) = <<>>
      BY <3>1, <3>4 DEF Text
    <3> QED BY <3>5 DEF u
  <2>3. LinesOf[<<>>] = <<>>
    BY <1>1, LinesOfIs
  <2>4. <<<<>>>> \o <<>> = <<<<>>>>
    BY <1>1
  <2> QED BY <1>3, <2>1, <2>2, <2>3, <2>4
<1> QED BY <1>1, <1>2, <1>3, <1>4, <1>5

\* A line that is taken goes on with the item, or ends it.
LEMMA LineTaken ==
    ASSUME NEW cur \in Seq(Text), mode \in Modes, item \in Text, OpenItem(cur, mode, item),
           NEW line \in Text, Len(line) < LineCap, Taken(line).mode # "bad"
    PROVE  /\ Taken(line).mode \in Modes /\ Taken(line).text \in Text
           /\ Append(cur, line) \in Seq(Text)
           /\ Taken(line).mode # "top" =>
                 OpenItem(Append(cur, line), Taken(line).mode, item \o Taken(line).text)
           /\ Taken(line).mode = "top" =>
                 /\ IsItem(Append(cur, line)) /\ ItemText(Append(cur, line)) = item
                 /\ Taken(line).text = <<>>
<1>0. Append(cur, line) \in Seq(Text)
  OBVIOUS
<1>1. CASE mode = "top"
  <2>1. Taken(line) = TopLine(line)
    BY <1>1 DEF Taken
  <2>2. cur = <<>> /\ item = <<>>
    BY <1>1 DEF OpenItem
  <2>3. Append(cur, line) = <<line>>
    BY <2>2
  <2>4. TopLine(line).text \in Text
    BY <2>1, TopTaken
  <2>5. item \o TopLine(line).text = TopLine(line).text
    BY <2>2, <2>4, EmptyEnds
  <2> QED BY <1>0, <2>1, <2>2, <2>3, <2>5, TopTaken
<1>2. CASE mode = "data"
  <2>1. Taken(line) = DataItemLine(line)
    BY <1>2 DEF Taken
  <2> QED BY <1>0, <1>2, <2>1, DataTaken
<1>3. CASE mode = "function"
  <2>1. Taken(line) = FunctionLine(line)
    BY <1>3 DEF Taken
  <2> QED BY <1>0, <1>3, <2>1, FunctionTaken
<1>4. CASE mode = "block"
  <2>1. Taken(line) = BlockLine(line)
    BY <1>4 DEF Taken
  <2>2. BlockLine(line).mode \in Modes \ {"top"}
    BY <1>4, <2>1, BlockTaken
  <2> QED BY <1>0, <1>4, <2>1, <2>2, BlockTaken
<1> QED BY <1>1, <1>2, <1>3, <1>4 DEF Modes

\* An item that has ended is printed first.
LEMMA ItemDone ==
    ASSUME NEW cur \in Seq(Text), NEW m \in Modes, NEW t, OpenItem(cur, m, t), NEW line \in Text,
           IsItem(Append(cur, line)), NEW rest \in Seq(Text)
    PROVE  /\ Items[cur \o (<<line>> \o rest)].text = ItemText(Append(cur, line)) \o Items[rest].text
           /\ Items[cur \o (<<line>> \o rest)].whole = Items[rest].whole
<1> DEFINE a == Append(cur, line)
<1>1. /\ a \in Seq(Text) /\ Len(a) = Len(cur) + 1 /\ Len(cur) \in Nat
      /\ \A i \in 1..Len(cur) : a[i] = cur[i]
  BY OneMore
<1>2. cur \o (<<line>> \o rest) = a \o rest
  <2>1. a = cur \o <<line>> /\ <<line>> \in Seq(Text)
    OBVIOUS
  <2>2. Associates(cur, <<line>>, rest)
    BY <2>1, Associative
  <2> QED BY <2>1, <2>2 DEF Associates
<1>3. ASSUME NEW n \in 1..(Len(a) - 1) PROVE ~IsItem(SubSeq(a, 1, n))
  <2>1. n \in 1..Len(cur)
    BY <1>1
  <2>2. SubSeq(a, 1, n) = SubSeq(cur, 1, n)
    <3> HIDE DEF a
    <3>1. SubSeq(a, 1, n) = [i \in 1..n |-> a[i]] /\ SubSeq(cur, 1, n) = [i \in 1..n |-> cur[i]]
      BY <1>1, <2>1
    <3>2. \A i \in 1..n : a[i] = cur[i]
      BY <1>1, <2>1
    <3> QED BY <3>1, <3>2
  <2> QED BY <2>1, <2>2, NoItemYet
<1> HIDE DEF a
<1>4. Items[a \o rest] = [text |-> ItemText(a) \o Items[rest].text, whole |-> Items[rest].whole]
  <2>1. IsItem(a)
    BY DEF a
  <2> QED BY <1>1, <1>3, <2>1, ItemFirst
<1>5. Items[a \o rest].text = ItemText(a) \o Items[rest].text /\ Items[a \o rest].whole = Items[rest].whole
  BY <1>4
<1>6. Items[cur \o (<<line>> \o rest)] = Items[a \o rest]
  BY <1>2
<1> QED BY <1>5, <1>6 DEF a

\* A file is open, or has been.
M1Open == pc \notin {"read", "open"}

\* What is in the file begins what is to be written, and so does what is kept
\* back when nothing is on its way.
M1Beginning ==
    Texts /\ M1Told /\ Active("hcc-m1") /\ M1Open /\ ~ferror =>
        /\ should.text \in Text
        /\ IsPrefix(disk["m"], should.text)
        /\ out.rest = <<>> => IsPrefix(disk["m"] \o pending, should.text)

\* The translation of what has been read is text.
LEMMA TranslationType ==
    ASSUME NEW t \in Text
    PROVE  Translation(t).text \in Text
<1> DEFINE ls == LinesOf[t]
<1>1. ls \in Seq(Text)
  BY LinesOfIs
<1>2. CASE ls = <<>> \/ ls[1] # <<"H">>
  <2>1. Translation(t) = [text |-> <<>>, whole |-> FALSE]
    BY <1>2 DEF Translation
  <2>2. <<>> \in Text
    BY DEF Text
  <2> QED BY <2>1, <2>2
<1>3. CASE ~(ls = <<>> \/ ls[1] # <<"H">>)
  <2>1. Tail(ls) \in Seq(Text)
    BY <1>1, <1>3
  <2> DEFINE r == Items[Tail(ls)]
  <2>2. Translation(t) = [r EXCEPT !.text = <<"DEFINE">> \o @]
    BY <1>3 DEF Translation
  <2>3. r \in Outputs /\ r.text \in Text
    BY <2>1, ItemsType
  <2>4. <<"DEFINE">> \in Text
    <3>1. "DEFINE" \in Chars
      BY CharsAssumption
    <3> QED BY <3>1 DEF Text
  <2> HIDE DEF r
  <2>5. Translation(t) = [text |-> <<"DEFINE">> \o r.text, whole |-> r.whole]
    BY <2>2, <2>3, TextBefore
  <2>6. <<"DEFINE">> \o r.text \in Text
    BY <2>3, <2>4, JoinText
  <2> QED BY <2>5, <2>6
<1> QED BY <1>2, <1>3

\* This holds in every state.
LEMMA M1Begins == M1Beginning
<1> SUFFICES ASSUME Texts, M1Told, Active("hcc-m1"), M1Open, ~ferror
             PROVE  /\ should.text \in Text
                    /\ IsPrefix(disk["m"], should.text)
                    /\ out.rest = <<>> => IsPrefix(disk["m"] \o pending, should.text)
  BY DEF M1Beginning
<1> DEFINE d == disk["m"]
           o == out.rest
           k == pending
<1>0. d \in Text /\ o \in Text /\ k \in Text /\ <<>> \in Text /\ o \o k \in Text /\ inp \in Text
  <2>1. d \in Text /\ o \in Text /\ k \in Text /\ inp \in Text
    BY PipelineAssumption DEF Texts, Active
  <2> QED BY <2>1, Joins DEF Text
<1>1. ASSUME NEW y \in Text, should.text = (d \o (o \o k)) \o y
      PROVE  should.text \in Text /\ IsPrefix(d, should.text) /\ (o = <<>> => IsPrefix(d \o k, should.text))
  <2> DEFINE w == should.text
             p == o \o k
  <2> HIDE DEF d, o, k, w, p
  <2>1. p \in Text /\ w = (d \o p) \o y
    BY <1>0, <1>1 DEF w, p
  <2>2. d \o p \in Text /\ w = d \o (p \o y) /\ p \o y \in Text
    <3>1. d \in Text /\ p \in Text /\ y \in Text
      BY <1>0, <2>1
    <3>2. Associates(d, p, y)
      BY <3>1, TextAssociates
    <3>3. d \o p \in Text /\ p \o y \in Text
      BY <3>1, JoinText
    <3> QED BY <2>1, <3>2, <3>3 DEF Associates
  <2>3. w \in Text /\ IsPrefix(d, w) /\ IsPrefix(d \o p, w)
    <3>1. IsPrefix(d, d \o (p \o y)) /\ d \o (p \o y) \in Text
      BY <1>0, <2>2, PrefixOfConcat
    <3>2. IsPrefix(d \o p, (d \o p) \o y)
      BY <2>2, PrefixOfConcat
    <3> QED BY <2>1, <2>2, <3>1, <3>2
  <2>4. o = <<>> => p = k
    BY <1>0, EmptyEnds DEF p
  <2> QED BY <2>3, <2>4 DEF w
<1>2. CASE pc = "header"
  <2>1. d = <<>> /\ o = <<>> /\ k = <<>> /\ should = Translation(inp)
    BY <1>2 DEF M1Told
  <2>2. should.text \in Text
    BY <1>0, <2>1, TranslationType
  <2>3. (<<>> \o (<<>> \o <<>>)) \o should.text = should.text
    BY <1>0, <2>2, EmptyEnds
  <2>4. should.text = (d \o (o \o k)) \o should.text
    BY <2>1, <2>3
  <2> QED BY <1>1, <2>2, <2>4
<1>3. CASE pc = "translate"
  <2>1. PICK cur \in Seq(Text) :
                should = [text |-> Sent \o ToCome(cur).text, whole |-> ToCome(cur).whole]
    BY <1>3 DEF M1Told
  <2>2. ToCome(cur).text \in Text
    <3>1. LinesOf[Unread] \in Seq(Text)
      BY LinesUnread DEF Texts
    <3>2. cur \o LinesOf[Unread] \in Seq(Text)
      BY <3>1
    <3> QED BY <3>2, ItemsType DEF ToCome
  <2>3. should.text = (d \o (o \o k)) \o ToCome(cur).text
    BY <2>1 DEF Sent
  <2> QED BY <1>1, <2>2, <2>3
<1>4. CASE pc = "ferror"
  <2>1. should = [text |-> Sent, whole |-> TRUE]
    BY <1>4 DEF M1Told
  <2>2. should.text = d \o (o \o k)
    BY <2>1 DEF Sent
  <2>3. should.text = (d \o (o \o k)) \o <<>>
    <3>1. d \o (o \o k) \in Text
      BY <1>0, JoinText
    <3> QED BY <2>2, <3>1, EmptyEnds
  <2> QED BY <1>0, <1>1, <2>3
<1>5. pc \in {"header", "translate", "ferror"}
  BY DEF M1Told, M1Open
<1> QED BY <1>2, <1>3, <1>4, <1>5

\* Four texts, joined in another order.
FourAssociate(a, b, c, e) == (a \o b) \o (c \o e) = (a \o (b \o c)) \o e

\* This holds for all texts.
LEMMA JoinFour == \A a, b, c, e \in Text : FourAssociate(a, b, c, e)
<1> SUFFICES ASSUME NEW a \in Text, NEW b \in Text, NEW c \in Text, NEW e \in Text
             PROVE  FourAssociate(a, b, c, e)
  OBVIOUS
<1> DEFINE x == a \o b
<1>1. x \in Text
  BY JoinText
<1> HIDE DEF x
<1>2. Associates(x, c, e) /\ Associates(a, b, c)
  BY <1>1, TextAssociates
<1> QED BY <1>2 DEF Associates, FourAssociate, x

\* The status of hcc-m1, seen through the refinement.
LEMMA M1Seen ==
    /\ Active("hcc-m1") => M1Status = IF ~M1Open THEN "reading" ELSE IF ferror THEN "spoiled" ELSE "writing"
    /\ stage # "hcc-m1" \/ exited # "no" => M1Status = Rest("hcc-m1")
BY DEF Active, M1Status, Status, Outcome, Rest, M1Open

\* The header is the first line of the translation.
LEMMA HeaderDone ==
    ASSUME Texts, M1Told, Active("hcc-m1"), pc = "header", ~BadHeader,
           Advance, pending' = pending \o <<"DEFINE">>, UNCHANGED <<disk, out>>
    PROVE  /\ <<>> \o LinesOf[Unread'] \in Seq(Text)
           /\ should = [text |-> Sent' \o Items[<<>> \o LinesOf[Unread']].text,
                        whole |-> Items[<<>> \o LinesOf[Unread']].whole]
<1>1. /\ inp \in Text /\ pos = 0 /\ pos \in 0..Len(inp) /\ pending = <<>> /\ out.rest = <<>>
      /\ disk["m"] = <<>> /\ should = Translation(inp)
  BY DEF Texts, M1Told
<1>2. Unread = inp
  <2>1. Unread \in Text /\ Len(Unread) = Len(inp) - pos /\ \A i \in 1..Len(Unread) : Unread[i] = inp[pos + i]
    BY <1>1, UnreadType
  <2>2. Len(inp) \in Nat /\ Unread \in Seq(Chars) /\ inp \in Seq(Chars)
    BY <1>1, <2>1 DEF Text
  <2>3. Len(Unread) = Len(inp) /\ \A i \in 1..Len(inp) : Unread[i] = inp[i]
    BY <1>1, <2>1, <2>2
  <2> QED BY <2>2, <2>3, SeqEqual
<1>3. Unread' = AfterLine(Unread)
  BY <1>1, AdvanceIs
<1> DEFINE ls == LinesOf[Unread]
           rest == LinesOf[Unread']
           r == Items[rest]
<1>4. ls = <<Line>> \o rest /\ rest \in Seq(Text) /\ Line = <<"H">> /\ Line \in Text
  BY <1>1, <1>3, LinesUnread DEF BadHeader
<1>5. ls # <<>> /\ ls[1] = <<"H">> /\ Tail(ls) = rest
  <2> DEFINE l == Line
  <2> HIDE DEF ls, rest, l
  <2>1. ls = <<l>> \o rest /\ rest \in Seq(Text) /\ l = <<"H">> /\ l \in Text
    BY <1>4 DEF l
  <2>2. <<l>> \o rest \in Seq(Text) /\ Len(<<l>> \o rest) = Len(rest) + 1 /\ (<<l>> \o rest)[1] = l
    BY <2>1
  <2>3. ls # <<>>
    BY <2>1, <2>2
  <2>4. /\ Tail(ls) \in Seq(Text) /\ Len(Tail(ls)) = Len(rest)
        /\ \A i \in 1..Len(rest) : Tail(ls)[i] = rest[i]
    <3>1. ls \in Seq(Text) /\ Len(ls) = Len(rest) + 1 /\ Len(rest) \in Nat
      BY <2>1, <2>2
    <3>2. \A i \in 1..Len(rest) : ls[i + 1] = rest[i]
      BY <2>1
    <3>3. \A i \in 1..Len(rest) : Tail(ls)[i] = ls[i + 1]
      BY <2>3, <3>1
    <3>4. Tail(ls) \in Seq(Text) /\ Len(Tail(ls)) = Len(rest)
      BY <2>3, <3>1
    <3> QED BY <3>2, <3>3, <3>4
  <2>5. Tail(ls) = rest
    BY <2>1, <2>4, SeqEqual
  <2> QED BY <2>1, <2>2, <2>3, <2>5
<1>6. should = [r EXCEPT !.text = <<"DEFINE">> \o @]
  <2>1. should = Translation(inp) /\ ls = LinesOf[inp]
    BY <1>1, <1>2
  <2>2. Translation(inp) = [Items[Tail(ls)] EXCEPT !.text = <<"DEFINE">> \o @]
    <3> HIDE DEF ls
    <3> QED BY <1>5, <2>1 DEF Translation
  <2> QED BY <1>5, <2>1, <2>2
<1>7. r \in Outputs
  BY <1>4, ItemsType
<1>8. should = [text |-> <<"DEFINE">> \o r.text, whole |-> r.whole]
  <2> HIDE DEF r
  <2> QED BY <1>6, <1>7, TextBefore
<1>9. Sent' = <<"DEFINE">>
  <2> DEFINE t == <<"DEFINE">>
  <2>1. t \in Text
    <3>1. "DEFINE" \in Chars
      BY CharsAssumption
    <3> QED BY <3>1 DEF Text
  <2>2. pending' = <<>> \o t
    BY <1>1
  <2> HIDE DEF t
  <2>3. <<>> \o t = t
    BY <2>1, EmptyEnds
  <2>4. disk'["m"] = <<>> /\ out'.rest = <<>> /\ pending' = t
    BY <1>1, <2>2, <2>3
  <2>5. Sent' = <<>> \o (<<>> \o t)
    BY <2>4 DEF Sent
  <2> QED BY <2>3, <2>5 DEF t
<1>10. <<>> \o rest = rest /\ rest \in Seq(Text)
  <2> HIDE DEF rest
  <2> QED BY <1>4
<1> QED BY <1>8, <1>9, <1>10

\* A line that is taken is printed with its item or waits for the rest of it.
LEMMA LineDone ==
    ASSUME Texts, NEW cur \in Seq(Text), OpenItem(cur, mode, item),
           should = [text |-> Sent \o ToCome(cur).text, whole |-> ToCome(cur).whole],
           ~AtEof, ~TooLong, Taken(Line).mode # "bad", Advance, mode' = Taken(Line).mode,
           IF Taken(Line).mode = "top"
           THEN item' = <<>> /\ pending' = pending \o item \o Taken(Line).text
           ELSE item' = item \o Taken(Line).text /\ UNCHANGED pending,
           UNCHANGED <<disk, out, should>>, out.rest = <<>>
    PROVE  \E c \in Seq(Text) :
              /\ OpenItem(c, mode', item')
              /\ should' = [text |-> Sent' \o Items[c \o LinesOf[Unread']].text,
                            whole |-> Items[c \o LinesOf[Unread']].whole]
<1>1. inp \in Text /\ pos \in 0..Len(inp) /\ mode \in Modes /\ item \in Text /\ pending \in Text
  BY DEF Texts
<1>2. Unread' = AfterLine(Unread)
  BY <1>1, AdvanceIs
<1> DEFINE line == Line
           rest == LinesOf[Unread']
<1>3. line \in Text /\ rest \in Seq(Text) /\ LinesOf[Unread] = <<line>> \o rest
  BY <1>1, <1>2, LinesUnread
<1>4. Len(line) < LineCap
  <2>1. Len(line) \in Nat /\ LineCap \in Nat
    BY <1>3, LineCapAssumption DEF Text
  <2> QED BY <2>1 DEF TooLong
<1> DEFINE t == Taken(line)
           a == Append(cur, line)
<1>5. /\ t.mode \in Modes /\ t.text \in Text /\ a \in Seq(Text)
      /\ t.mode # "top" => OpenItem(a, t.mode, item \o t.text)
      /\ t.mode = "top" => IsItem(a) /\ ItemText(a) = item /\ t.text = <<>>
  BY <1>1, <1>3, <1>4, LineTaken
<1>6. should = [text |-> Sent \o Items[cur \o (<<line>> \o rest)].text,
                whole |-> Items[cur \o (<<line>> \o rest)].whole]
  BY <1>3 DEF ToCome
<1>7. CASE t.mode = "top"
  <2>1. /\ Items[cur \o (<<line>> \o rest)].text = item \o Items[rest].text
        /\ Items[cur \o (<<line>> \o rest)].whole = Items[rest].whole
    <3>1. IsItem(a) /\ ItemText(a) = item
      BY <1>5, <1>7
    <3> HIDE DEF line, rest
    <3> QED BY <1>1, <1>3, <3>1, ItemDone
  <2>2. mode' = "top" /\ item' = <<>> /\ pending' = pending \o item
    <3>1. (pending \o item) \o <<>> = pending \o item
      BY <1>1, JoinText, EmptyEnds
    <3> QED BY <1>5, <1>7, <3>1
  <2>3. OpenItem(<<>>, mode', item')
    BY <2>2 DEF OpenItem
  <2>4. <<>> \in Seq(Text) /\ <<>> \o rest = rest
    <3> HIDE DEF rest
    <3> QED BY <1>3
  <2>5. Sent \o (item \o Items[rest].text) = Sent' \o Items[rest].text
    <3> DEFINE d == disk["m"]
               y == Items[rest].text
    <3>1. d \in Text /\ y \in Text
      BY <1>3, ItemsType, PipelineAssumption DEF Texts
    <3>2. Sent = d \o (<<>> \o pending) /\ Sent' = d \o (<<>> \o pending')
      BY DEF Sent
    <3>3. <<>> \o pending = pending /\ <<>> \o pending' = pending'
      <4>1. pending' \in Text
        BY <1>1, <2>2, JoinText
      <4> QED BY <1>1, <4>1, EmptyEnds
    <3>4. Sent = d \o pending /\ Sent' = d \o (pending \o item)
      BY <2>2, <3>2, <3>3
    <3> HIDE DEF d, y
    <3> DEFINE p == pending
               i == item
    <3>5. d \in Text /\ y \in Text /\ p \in Text /\ i \in Text
      BY <1>1, <3>1
    <3> HIDE DEF p, i
    <3>6. FourAssociate(d, p, i, y)
      BY <3>5, JoinFour
    <3> QED BY <3>4, <3>6 DEF p, i, y, FourAssociate
  <2>6. should' = [text |-> Sent' \o Items[<<>> \o rest].text, whole |-> Items[<<>> \o rest].whole]
    BY <1>6, <2>1, <2>4, <2>5
  <2> QED BY <2>3, <2>4, <2>6
<1>8. CASE t.mode # "top"
  <2>1. mode' = t.mode /\ item' = item \o t.text /\ pending' = pending
    BY <1>8
  <2>2. OpenItem(a, mode', item')
    BY <1>5, <1>8, <2>1
  <2>3. cur \o (<<line>> \o rest) = a \o rest
    <3> HIDE DEF line, rest
    <3>1. a = cur \o <<line>> /\ <<line>> \in Seq(Text)
      BY <1>3
    <3>2. Associates(cur, <<line>>, rest)
      BY <1>3, <3>1, Associative
    <3> QED BY <3>1, <3>2 DEF Associates
  <2>4. Sent' = Sent
    BY <2>1 DEF Sent
  <2>5. should' = [text |-> Sent' \o Items[a \o rest].text, whole |-> Items[a \o rest].whole]
    BY <1>6, <2>3, <2>4
  <2> QED BY <1>5, <2>2, <2>5
<1> QED BY <1>7, <1>8

\* One write(2): what was sent is sent, or the stream remembers that it is not.
LEMMA M1Written ==
    ASSUME PipeInv, Texts, stage = "hcc-m1", out.file = "m", m1_checked_write
    PROVE  /\ \/ /\ exited' = "no" /\ ferror' = ferror /\ Sent' = Sent
                 /\ out'.file = "m" /\ IsPrefix(disk["m"], disk'["m"])
              \/ exited' = "no" /\ ferror' /\ out' = NoWrite
              \/ exited' = "fail" /\ disk' = disk
<1>0. /\ "m" \in Files /\ out.rest \in Text /\ out.rest # <<>> /\ pending \in Text /\ disk["m"] \in Text
      /\ disk \in [Files -> Text] /\ exited = "no" /\ pending' = pending
  BY PipelineAssumption DEF Texts, m1_checked_write
<1>1. PICK n \in WriteResults :
         IF n > 0
         THEN /\ disk' = [disk EXCEPT !["m"] = @ \o SubSeq(out.rest, 1, n)]
              /\ out' = [out EXCEPT !.rest = SubSeq(@, n + 1, Len(@))]
              /\ UNCHANGED <<exited, ferror>>
         ELSE /\ out' = NoWrite
              /\ exited' = IF m2 THEN "fail" ELSE "no"
              /\ ferror' = (ferror \/ ~m2)
              /\ UNCHANGED disk
  BY DEF m1_checked_write
<1>2. CASE n > 0
  <2>1. n \in 1..Len(out.rest)
    <3>1. Len(out.rest) \in Nat /\ Len(out.rest) # 0
      BY <1>0 DEF Text
    <3>2. n \in {-1, 1, Len(out.rest), 0}
      BY DEF WriteResults
    <3> QED BY <1>2, <3>1, <3>2
  <2> DEFINE a == SubSeq(out.rest, 1, n)
             b == SubSeq(out.rest, n + 1, Len(out.rest))
             d == disk["m"]
             p == pending
  <2>2. a \in Text /\ b \in Text /\ out.rest = a \o b
    BY <1>0, <2>1, SplitText
  <2>3. disk' = [disk EXCEPT !["m"] = @ \o a] /\ out' = [out EXCEPT !.rest = b] /\ UNCHANGED <<exited, ferror>>
    BY <1>1, <1>2
  <2>4. disk'["m"] = d \o a
    BY <1>0, <2>3
  <2>5. out'.rest = b /\ out'.file = "m"
    <3> DEFINE f == out.file
               r == out.rest
    <3>1. out = [file |-> f, rest |-> r] /\ f = "m"
      BY DEF PipeInv, FileInv, FileTypes
    <3> HIDE DEF f, r, b
    <3>2. out' = [file |-> f, rest |-> b]
      BY <2>3, <3>1
    <3> QED BY <3>1, <3>2
  <2>6. d \in Text /\ p \in Text
    BY <1>0
  <2>7. Sent = d \o ((a \o b) \o p) /\ Sent' = (d \o a) \o (b \o p)
    BY <1>0, <2>2, <2>4, <2>5 DEF Sent
  <2>8. (d \o a) \o (b \o p) = d \o ((a \o b) \o p)
    <3> HIDE DEF d, a, b, p
    <3>1. (d \o a) \o (b \o p) = (d \o (a \o b)) \o p
      <4>1. FourAssociate(d, a, b, p)
        BY <2>2, <2>6, JoinFour
      <4> QED BY <4>1 DEF FourAssociate
    <3>2. a \o b \in Text
      BY <2>2, JoinText
    <3>3. (d \o (a \o b)) \o p = d \o ((a \o b) \o p)
      <4> DEFINE c == a \o b
      <4> HIDE DEF c
      <4>1. c \in Text
        BY <3>2 DEF c
      <4>2. Associates(d, c, p)
        BY <2>6, <4>1, TextAssociates
      <4> QED BY <4>2 DEF c, Associates
    <3> QED BY <3>1, <3>3
  <2>9. IsPrefix(disk["m"], disk'["m"])
    <3>1. IsPrefix(d, d \o a)
      BY <2>2, <2>6, Beginnings
    <3> QED BY <2>4, <3>1
  <2>10. exited' = "no" /\ ferror' = ferror
    BY <1>0, <2>3
  <2>11. Sent' = Sent
    BY <2>7, <2>8
  <2> QED BY <2>5, <2>9, <2>10, <2>11
<1>3. CASE ~(n > 0)
  <2>1. out' = NoWrite /\ exited' = (IF m2 THEN "fail" ELSE "no") /\ ferror' = (ferror \/ ~m2) /\ disk' = disk
    BY <1>1, <1>3
  <2>2. m2 => exited' = "fail" /\ disk' = disk
    BY <2>1
  <2>3. ~m2 => exited' = "no" /\ ferror' /\ out' = NoWrite
    BY <2>1
  <2> QED BY <2>2, <2>3
<1> QED BY <1>2, <1>3

\* Every step of hcc-m1 implements one of Publish, or is not seen.
LEMMA M1Step ==
    ASSUME PipeInv, PipeInv', Texts, Texts', M1Told, [Next]_vars
    PROVE  M1Told' /\ [M1Publish!Next]_(M1Publish!pubVars)
<1> DEFINE d == disk["m"]
           d2 == disk'["m"]
<1>0. /\ "m" \in Files /\ d \in Text /\ d2 \in Text /\ <<>> \in Text
  BY PipelineAssumption DEF Texts, Text
<1> USE DEF M1Publish!pubVars
<1>1. CASE ~Active("hcc-m1")
  <2>0. Begun("hcc-m1") \/ Waiting("hcc-m1")
    BY <1>1, NotRunning DEF Programs
  <2>1. M1Status = Rest("hcc-m1") /\ Rest("hcc-m1") \in {"idle", "done", "failed"}
    BY <1>1, M1Seen, RestType DEF Programs, Active
  <2>2. CASE Begun("hcc-m1")
    <3>1. /\ stage' = "hcc-m1" /\ exited' = "no" /\ pc' = "read" /\ disk'["m"] = disk["m"] /\ out'.rest = <<>>
          /\ pos' = 0 /\ mode' = "top" /\ item' = <<>> /\ pending' = <<>> /\ ferror' = FALSE
      BY <2>2 DEF Begun, FileOf, Fresh, M1Fresh, NoWrite
    <3>2. M1Told'
      BY <3>1 DEF M1Told
    <3>3. M1Status' = "reading"
      BY <3>1 DEF M1Status, Status
    <3>4. M1Publish!Start
      BY <2>1, <3>1, <3>3 DEF M1Publish!Start, M1Publish!Stopped
    <3> QED BY <3>2, <3>4 DEF M1Publish!Next
  <2>3. CASE Waiting("hcc-m1")
    <3>1. disk'["m"] = disk["m"] /\ Rest("hcc-m1")' = Rest("hcc-m1") /\ ~Active("hcc-m1")'
      BY <2>3 DEF Waiting, FileOf, Active
    <3>2. M1Status' = M1Status
      <4>1. M1Status' = Rest("hcc-m1")'
        BY <3>1 DEF M1Status, Status, Rest, Active
      <4> QED BY <2>1, <3>1, <4>1
    <3>3. Want(M1Status)' = Want(M1Status)
      BY <2>1, <3>2 DEF Want
    <3>4. M1Told'
      BY <3>1 DEF M1Told
    <3> QED BY <3>1, <3>2, <3>3, <3>4
  <2> QED BY <2>0, <2>2, <2>3
<1>2. CASE Active("hcc-m1")
  <2>0. /\ stage = "hcc-m1" /\ exited = "no"
        /\ pc \in {"read", "open", "header", "translate", "ferror"}
        /\ pc \in {"read", "open", "header"} =>
              out.rest = <<>> /\ ~ferror /\ pos = 0 /\ mode = "top" /\ item = <<>> /\ pending = <<>>
        /\ pc \in {"open", "header"} => should = Translation(inp)
        /\ pc = "header" => disk["m"] = <<>>
        /\ out.rest # <<>> => out.file = "m"
        /\ pc = "translate" /\ ~ferror =>
              \E cur \in Seq(Text) :
                 /\ OpenItem(cur, mode, item)
                 /\ should = [text |-> Sent \o ToCome(cur).text, whole |-> ToCome(cur).whole]
        /\ pc = "ferror" /\ ~ferror => should = [text |-> Sent, whole |-> TRUE]
    BY <1>2 DEF Active, M1Told
  <2>a. out.rest \in Text /\ pending \in Text /\ inp \in Text /\ pos \in 0..Len(inp) /\ ferror \in BOOLEAN
    BY <2>0 DEF Texts
  <2>b. M1Status = IF ~M1Open THEN "reading" ELSE IF ferror THEN "spoiled" ELSE "writing"
    BY <1>2, M1Seen
  <2>w. M1Status = "writing" => Want(M1Status) = should
    BY DEF Want
  <2>c. ASSUME stage' = "hcc-m1", exited' = "no"
        PROVE  M1Status' = IF ~M1Open' THEN "reading" ELSE IF ferror' THEN "spoiled" ELSE "writing"
    BY <2>c DEF M1Status, Status, M1Open
  <2>g. IsPrefix(d, d)
    BY <1>0, Beginnings
  <2>u. M1Open /\ ~ferror =>
          /\ should.text \in Text
          /\ IsPrefix(disk["m"], should.text)
          /\ out.rest = <<>> => IsPrefix(disk["m"] \o pending, should.text)
    BY <1>2, M1Begins DEF M1Beginning
  <2>v. M1Beginning'
    BY M1Begins, PTL
  <2>e. ASSUME stage' = "hcc-m1", exited' \in {"fail", "killed"},
               d2 = d \/ (out.rest = <<>> /\ d2 = d \o pending)
        PROVE  M1Told' /\ M1Publish!Next
    <3>1. M1Status' = "failed" /\ M1Told'
      BY <2>e DEF M1Status, Status, Outcome, M1Told, Active
    <3>2. CASE ~M1Open
      <4>1. d2 = d
        BY <1>0, <2>0, <2>e, <3>2, EmptyEnds DEF M1Open
      <4> QED BY <2>b, <3>1, <3>2, <4>1 DEF M1Publish!Next, M1Publish!Fail
    <3>3. CASE M1Open /\ ferror
      BY <2>b, <3>1, <3>3 DEF M1Publish!Next, M1Publish!Fail
    <3>4. CASE M1Open /\ ~ferror
      <4>1. IsPrefix(d, d2) /\ IsPrefix(d2, should.text)
        <5>1. IsPrefix(d, d \o pending)
          BY <1>0, <2>a, Beginnings
        <5> QED BY <2>e, <2>g, <2>u, <3>4, <5>1
      <4>2. M1Publish!IsPrefix(disk["m"], disk'["m"]) /\ M1Publish!IsPrefix(disk'["m"], should.text)
        BY <4>1, SameBeginnings
      <4> QED BY <2>b, <2>w, <3>1, <3>4, <4>2 DEF M1Publish!Next, M1Publish!Fail
    <3> QED BY <3>2, <3>3, <3>4
  \* A step that leaves the file open.
  <2>f. ASSUME stage' = "hcc-m1", exited' = "no", M1Open, M1Open', ~ferror, ~ferror', should' = should,
               M1Told', IsPrefix(d, d2)
        PROVE  M1Publish!Next
    <3>1. M1Status = "writing" /\ M1Status' = "writing"
      BY <2>b, <2>c, <2>f
    <3>2. IsPrefix(d2, should.text)
      BY <2>f, <2>v DEF M1Beginning, Active
    <3>3. M1Publish!IsPrefix(disk["m"], disk'["m"]) /\ M1Publish!IsPrefix(disk'["m"], should.text)
      BY <2>f, <3>2, SameBeginnings
    <3>4. Want(M1Status)' = should /\ Want(M1Status) = should
      BY <2>f, <2>w, <3>1 DEF Want
    <3> QED BY <3>1, <3>3, <3>4 DEF M1Publish!Next, M1Publish!Extend
  \* A step after a write has failed, or that is the first to fail.
  <2>s. ASSUME stage' = "hcc-m1", exited' = "no", pc \in {"translate", "ferror"}, pc' \in {"translate", "ferror"},
               ferror', out'.rest # <<>> => out'.file = "m"
        PROVE  M1Told' /\ M1Publish!Next
    <3>1. M1Status \in {"writing", "spoiled"} /\ M1Status' = "spoiled"
      BY <2>b, <2>c, <2>s DEF M1Open
    <3>2. M1Told'
      BY <2>s DEF M1Told
    <3> QED BY <3>1, <3>2 DEF M1Publish!Next, M1Publish!Spoil
  <2>1. CASE Killed
    <3>1. exited' = "killed" /\ stage' = stage /\ disk' = disk
      BY <2>1 DEF Killed, driverVars
    <3> QED BY <2>0, <2>e, <3>1
  <2>2. CASE UNCHANGED vars
    <3>1. UNCHANGED <<exited, stage, pc, out, disk, should, inp, pos, mode, item, pending, ferror, last>>
      BY <2>2 DEF vars, runtimeVars, driverVars, m1Vars
    <3>2. M1Status' = M1Status
      BY <3>1 DEF M1Status, Status, Outcome
    <3>3. Want(M1Status)' = Want(M1Status)
      BY <3>1, <3>2 DEF Want
    <3>4. Sent' = Sent /\ Unread' = Unread
      BY <3>1 DEF Sent, Unread
    <3>5. M1Told'
      BY <2>0, <3>1, <3>4 DEF M1Told, Active, ToCome
    <3> QED BY <3>1, <3>2, <3>3, <3>5
  <2> HIDE DEF d, d2
  <2>3. CASE RunningM1 /\ m1_die /\ M1Ready
    <3>1. stage' = "hcc-m1" /\ exited' = "fail" /\ out.rest = <<>>
          /\ (disk' = disk \/ disk' = [disk EXCEPT !["m"] = @ \o pending])
      BY <2>0, <2>3 DEF m1_die, M1Keep, M1Ready, Ready
    <3>2. d2 = d \/ d2 = d \o pending
      <4>1. disk \in [Files -> Text]
        BY DEF Texts
      <4> QED BY <1>0, <3>1, <4>1 DEF d, d2
    <3> QED BY <2>e, <3>1, <3>2
  <2>4. CASE RunningM1 /\ M1OpenInput
    <3>1. /\ pc = "read" /\ pc' = "open" /\ stage' = stage
          /\ UNCHANGED <<exited, out, disk, pos, mode, item, pending, ferror>>
      BY <2>4 DEF M1OpenInput, M1Keep
    <3>2. should' = Translation(inp')
      BY <2>4, <3>1 DEF RunningM1
    <3>3. M1Told'
      BY <2>0, <3>1, <3>2 DEF M1Told, Active
    <3>4. M1Status = "reading" /\ M1Status' = "reading"
      BY <2>0, <2>b, <2>c, <3>1 DEF M1Open
    <3> QED BY <3>1, <3>3, <3>4 DEF Want
  <2>5. CASE RunningM1 /\ M1CannotOpen
    <3>1. stage' = "hcc-m1" /\ exited' = "fail" /\ disk' = disk
      BY <2>0, <2>5 DEF M1CannotOpen, M1Keep
    <3> QED BY <2>e, <3>1 DEF d, d2
  <2>6. CASE RunningM1 /\ M1OpenOutput
    <3>1. /\ pc = "open" /\ pc' = "header" /\ stage' = stage
          /\ UNCHANGED <<exited, out, inp, pos, mode, item, pending, ferror>>
          /\ disk' = [disk EXCEPT !["m"] = <<>>]
      BY <2>6 DEF M1OpenOutput, M1Keep, m1Vars
    <3>2. should' = Translation(inp')
      <4>1. should' = should
        BY <2>6, <3>1 DEF RunningM1
      <4> QED BY <2>0, <3>1, <4>1
    <3>3. disk'["m"] = <<>>
      BY <1>0, <3>1 DEF Texts
    <3>4. M1Told'
      BY <2>0, <3>1, <3>2, <3>3 DEF M1Told, Active
    <3>5. M1Status = "reading" /\ M1Status' = "writing"
      BY <2>0, <2>b, <2>c, <3>1 DEF M1Open
    <3> QED BY <3>3, <3>4, <3>5 DEF M1Publish!Next, M1Publish!Open
  <2>7. CASE RunningM1 /\ M1Header /\ ~m1_die
    <3>1. /\ pc = "header" /\ pc' = "translate" /\ ~BadHeader /\ Advance
          /\ pending' = pending \o <<"DEFINE">>
          /\ UNCHANGED <<stage, exited, out, disk, mode, item, ferror>>
      BY <2>7 DEF M1Header, M1Keep
    <3>2. should' = should
      BY <2>7, <3>1 DEF RunningM1
    <3>3. /\ <<>> \o LinesOf[Unread'] \in Seq(Text)
          /\ should = [text |-> Sent' \o Items[<<>> \o LinesOf[Unread']].text,
                       whole |-> Items[<<>> \o LinesOf[Unread']].whole]
      BY <1>2, <3>1, HeaderDone
    <3>4. OpenItem(<<>>, mode', item')
      <4>1. mode' = "top" /\ item' = <<>>
        BY <2>0, <3>1
      <4> QED BY <4>1 DEF OpenItem
    <3>5. M1Told'
      <4>1. should' = [text |-> Sent' \o ToCome(<<>>)'.text, whole |-> ToCome(<<>>)'.whole]
        BY <3>2, <3>3 DEF ToCome
      <4>2. <<>> \in Seq(Text)
        OBVIOUS
      <4>3. \E cur \in Seq(Text) :
               /\ OpenItem(cur, mode', item')
               /\ should' = [text |-> Sent' \o ToCome(cur)'.text, whole |-> ToCome(cur)'.whole]
        BY <3>4, <4>1, <4>2
      <4> QED BY <2>0, <3>1, <4>3 DEF M1Told, Active
    <3>6. M1Open /\ M1Open' /\ ~ferror /\ ~ferror' /\ d2 = d
      BY <2>0, <3>1 DEF M1Open, d, d2
    <3> QED BY <2>0, <2>f, <2>g, <3>1, <3>2, <3>5, <3>6
  <2>8. CASE RunningM1 /\ TranslateEof /\ ~m1_die
    <3>1. /\ pc = "translate" /\ pc' = "ferror" /\ AtEof /\ mode = "top"
          /\ UNCHANGED <<stage, exited, out, disk, pending, ferror>>
      BY <2>8 DEF TranslateEof, EndsInside, M1Keep, m1Vars
    <3>2. should' = should
      BY <2>8, <3>1 DEF RunningM1
    <3>3. CASE ferror
      BY <2>0, <2>s, <3>1, <3>3
    <3>4. CASE ~ferror
      <4>1. PICK cur \in Seq(Text) :
                    /\ OpenItem(cur, mode, item)
                    /\ should = [text |-> Sent \o ToCome(cur).text, whole |-> ToCome(cur).whole]
        BY <2>0, <3>1, <3>4
      <4>2. cur = <<>>
        BY <3>1, <4>1 DEF OpenItem
      <4>3. ToCome(cur).text = <<>> /\ ToCome(cur).whole = TRUE
        <5>1. LinesOf[Unread] \in {<<>>, <<<<>>>>} /\ LinesOf[Unread] \in Seq(Text)
          BY <2>a, <3>1, LinesUnread
        <5>2. cur \o LinesOf[Unread] = LinesOf[Unread]
          BY <4>2, <5>1
        <5> QED BY <5>1, <5>2, NothingToCome DEF ToCome
      <4>4. Sent \in Text
        <5>1. out.rest \o pending \in Text
          BY <2>a, Joins
        <5> QED BY <1>0, <5>1, Joins DEF Sent, d
      <4>5. should' = [text |-> Sent', whole |-> TRUE]
        <5>1. Sent \o <<>> = Sent /\ Sent' = Sent
          BY <3>1, <4>4, EmptyEnds DEF Sent
        <5> QED BY <3>2, <4>1, <4>3, <5>1
      <4>6. M1Told'
        BY <2>0, <3>1, <3>4, <4>5 DEF M1Told, Active
      <4>7. M1Open /\ M1Open' /\ ~ferror' /\ d2 = d
        BY <3>1, <3>4 DEF M1Open, d, d2
      <4> QED BY <2>0, <2>f, <2>g, <3>1, <3>2, <3>4, <4>6, <4>7
    <3> QED BY <3>3, <3>4
  <2>9. CASE RunningM1 /\ TranslateLine /\ ~m1_die
    <3>1. /\ pc = "translate" /\ pc' = pc /\ ~AtEof /\ ~TooLong /\ Taken(Line).mode # "bad" /\ Advance
          /\ mode' = Taken(Line).mode /\ out.rest = <<>>
          /\ IF Taken(Line).mode = "top"
             THEN item' = <<>> /\ pending' = pending \o item \o Taken(Line).text
             ELSE item' = item \o Taken(Line).text /\ UNCHANGED pending
          /\ UNCHANGED <<stage, exited, out, disk, ferror>>
      BY <2>9 DEF TranslateLine, M1Keep, M1Ready, Ready
    <3>2. should' = should
      BY <2>9, <3>1 DEF RunningM1
    <3>3. CASE ferror
      BY <2>0, <2>s, <3>1, <3>3
    <3>4. CASE ~ferror
      <4>1. PICK cur \in Seq(Text) :
                    /\ OpenItem(cur, mode, item)
                    /\ should = [text |-> Sent \o ToCome(cur).text, whole |-> ToCome(cur).whole]
        BY <2>0, <3>1, <3>4
      <4>2. \E c \in Seq(Text) :
               /\ OpenItem(c, mode', item')
               /\ should' = [text |-> Sent' \o Items[c \o LinesOf[Unread']].text,
                             whole |-> Items[c \o LinesOf[Unread']].whole]
        BY <3>1, <3>2, <4>1, LineDone
      <4>3. M1Told'
        <5>1. \E c \in Seq(Text) :
                 /\ OpenItem(c, mode', item')
                 /\ should' = [text |-> Sent' \o ToCome(c)'.text, whole |-> ToCome(c)'.whole]
          BY <4>2 DEF ToCome
        <5> QED BY <2>0, <3>1, <3>4, <5>1 DEF M1Told, Active
      <4>4. M1Open /\ M1Open' /\ ~ferror' /\ d2 = d
        BY <3>1, <3>4 DEF M1Open, d, d2
      <4> QED BY <2>0, <2>f, <2>g, <3>1, <3>2, <3>4, <4>3, <4>4
    <3> QED BY <3>3, <3>4
  \* A step of the stream: what is sent stays, wherever it is.
  <2>h. ASSUME pc \in {"translate", "ferror"}, ~ferror, ~ferror', stage' = "hcc-m1", exited' = "no", out'.file = "m",
               UNCHANGED <<pc, inp, pos, mode, item, should>>, Sent' = Sent, IsPrefix(d, d2)
        PROVE  M1Told' /\ M1Publish!Next
    <3>1. \A c \in Seq(Text) : ToCome(c)' = ToCome(c)
      BY <2>h DEF ToCome, Unread
    <3>2. pc = "translate" =>
            \E c \in Seq(Text) :
               /\ OpenItem(c, mode', item')
               /\ should' = [text |-> Sent' \o ToCome(c)'.text, whole |-> ToCome(c)'.whole]
      <4> SUFFICES ASSUME pc = "translate"
                   PROVE  \E c \in Seq(Text) :
                             /\ OpenItem(c, mode', item')
                             /\ should' = [text |-> Sent' \o ToCome(c)'.text, whole |-> ToCome(c)'.whole]
        OBVIOUS
      <4>1. PICK cur \in Seq(Text) :
                    /\ OpenItem(cur, mode, item)
                    /\ should = [text |-> Sent \o ToCome(cur).text, whole |-> ToCome(cur).whole]
        BY <2>0, <2>h
      <4>2. OpenItem(cur, mode', item')
        BY <2>h, <4>1
      <4>3. should' = [text |-> Sent' \o ToCome(cur)'.text, whole |-> ToCome(cur)'.whole]
        BY <2>h, <3>1, <4>1
      <4> QED BY <4>2, <4>3
    <3>3. pc = "ferror" => should' = [text |-> Sent', whole |-> TRUE]
      BY <2>0, <2>h
    <3>4. M1Told'
      BY <2>h, <3>2, <3>3 DEF M1Told
    <3>5. M1Open /\ M1Open'
      BY <2>h DEF M1Open
    <3> QED BY <2>f, <2>h, <3>4, <3>5
  <2>10. CASE RunningM1 /\ M1Spill
    <3>1. /\ pc \in {"translate", "ferror"} /\ out.rest = <<>>
          /\ out' = [file |-> "m", rest |-> pending] /\ pending' = <<>>
          /\ UNCHANGED <<exited, disk, stage, pc, inp, pos, mode, item, ferror>>
      BY <2>10 DEF M1Spill, M1Keep, M1Ready, Ready
    <3>2. should' = should
      BY <2>10, <3>1 DEF RunningM1
    <3>3. Sent' = Sent
      <4>1. pending \o <<>> = pending /\ <<>> \o pending = pending
        BY <2>a, EmptyEnds
      <4>2. out'.rest = pending
        BY <3>1
      <4>3. Sent' = disk["m"] \o (pending \o <<>>) /\ Sent = disk["m"] \o (<<>> \o pending)
        BY <3>1, <4>2 DEF Sent
      <4> QED BY <4>1, <4>3
    <3>4. out'.file = "m" /\ d2 = d
      BY <3>1 DEF d, d2
    <3>5. CASE ferror
      BY <2>0, <2>s, <3>1, <3>4, <3>5
    <3>6. CASE ~ferror
      BY <2>0, <2>g, <2>h, <3>1, <3>2, <3>3, <3>4, <3>6
    <3> QED BY <3>5, <3>6
  <2>11. CASE RunningM1 /\ m1_checked_write
    <3>1. /\ out.rest # <<>> /\ UNCHANGED <<stage, pc, inp, pos, mode, item, pending>>
      BY <2>11 DEF m1_checked_write, M1Keep
    <3>2. pc \in {"translate", "ferror"} /\ out.file = "m" /\ should' = should
      BY <2>0, <2>11, <3>1 DEF RunningM1
    <3>3. \/ /\ exited' = "no" /\ ferror' = ferror /\ Sent' = Sent
             /\ out'.file = "m" /\ IsPrefix(disk["m"], disk'["m"])
          \/ exited' = "no" /\ ferror' /\ out' = NoWrite
          \/ exited' = "fail" /\ disk' = disk
      BY <2>0, <2>11, <3>2, M1Written
    <3>4. CASE /\ exited' = "no" /\ ferror' = ferror /\ Sent' = Sent
               /\ out'.file = "m" /\ IsPrefix(disk["m"], disk'["m"])
      <4>1. CASE ferror
        BY <2>0, <2>s, <3>1, <3>2, <3>4, <4>1
      <4>2. CASE ~ferror
        BY <2>0, <2>h, <3>1, <3>2, <3>4, <4>2 DEF d, d2
      <4> QED BY <4>1, <4>2
    <3>5. CASE exited' = "no" /\ ferror' /\ out' = NoWrite
      <4>1. out'.rest = <<>>
        BY <3>5 DEF NoWrite
      <4> QED BY <2>0, <2>s, <3>1, <3>2, <3>5, <4>1
    <3>6. CASE exited' = "fail" /\ disk' = disk
      BY <2>0, <2>e, <3>1, <3>6 DEF d, d2
    <3> QED BY <3>3, <3>4, <3>5, <3>6
  <2>12. CASE RunningM1 /\ M1Finish /\ ~m1_die
    <3>1. /\ pc = "ferror" /\ ~ferror /\ pending = <<>> /\ out.rest = <<>> /\ exited' \in {"fail", "ok"}
          /\ UNCHANGED <<stage, disk>>
      BY <2>12 DEF M1Finish, WriteFailed, M1Keep, M1Ready, Ready
    <3>2. CASE exited' = "fail"
      BY <2>0, <2>e, <3>1, <3>2 DEF d, d2
    <3>3. CASE exited' = "ok"
      <4>1. should = [text |-> Sent, whole |-> TRUE] /\ Sent = d
        <5>1. d \o (<<>> \o <<>>) = d
          BY <1>0, EmptyEnds
        <5> QED BY <2>0, <3>1, <5>1 DEF Sent, d
      <4>2. should.text = d /\ should.whole = TRUE
        BY <4>1
      <4>3. M1Status = "writing" /\ M1Status' = "done" /\ M1Told'
        BY <2>0, <2>b, <3>1, <3>3 DEF M1Status, Status, Outcome, M1Told, Active, M1Open
      <4> QED BY <2>w, <3>1, <4>2, <4>3 DEF M1Publish!Next, M1Publish!Succeed, d
    <3> QED BY <3>1, <3>2, <3>3
  <2>13. ASSUME RunningM1, ~(m1_die /\ M1Ready)
         PROVE  \/ M1OpenInput \/ M1CannotOpen \/ M1OpenOutput \/ M1Spill \/ m1_checked_write
                \/ ~m1_die /\ (M1Header \/ TranslateEof \/ TranslateLine \/ M1Finish)
    <3>1. HccM1
      BY <2>13 DEF RunningM1
    <3>2. M1Header \/ TranslateEof \/ TranslateLine \/ M1Finish => M1Ready
      BY DEF M1Header, TranslateEof, TranslateLine, M1Finish
    <3> QED BY <2>13, <3>1, <3>2 DEF HccM1
  <2>14. Killed \/ RunningM1 \/ UNCHANGED vars
    BY <1>2, ActiveSteps DEF Programs
  <2> QED BY <2>1, <2>2, <2>3, <2>4, <2>5, <2>6, <2>7, <2>8, <2>9, <2>10, <2>11, <2>12, <2>13, <2>14
<1> QED BY <1>1, <1>2

(***************************************************************************)
(* The programs implement Publish.                                         *)
(***************************************************************************)
\* hcpp, through hccPutStr and the redirection of the script, implements
\* Publish, for every source, every file it may find and every fault.
THEOREM HcppImplements == Spec => HcppPublishes
<1> DEFINE Inv == PipeInv /\ Texts /\ CppTold
<1>1. Init => CppPublish!Init
  BY DEF CppPublish!Init, Init, CppStatus, Status, Programs
<1>2. Init => Inv
  BY PipeInitial, TextsInitial DEF Init, CppTold, Active
<1>3. Inv /\ [Next]_vars => Inv' /\ [CppPublish!Next]_(CppPublish!pubVars)
  BY PipeStep, TextsStep, CppStep
<1> QED BY <1>1, <1>2, <1>3, PTL DEF Spec, HcppPublishes, CppPublish!Spec

\* hcc1 implements Publish: its file begins what the lowering of the whole
\* program gives, or is empty when some function is refused.
THEOREM Hcc1Implements == Spec => Hcc1Publishes
<1> DEFINE Inv == PipeInv /\ Texts /\ Cc1Told
<1>1. Init => Cc1Publish!Init
  BY DEF Cc1Publish!Init, Init, Cc1Status, Status, Programs
<1>2. Init => Inv
  BY PipeInitial, TextsInitial DEF Init, Cc1Told, Active
<1>3. Inv /\ [Next]_vars => Inv' /\ [Cc1Publish!Next]_(Cc1Publish!pubVars)
  BY PipeStep, TextsStep, Cc1Step
<1> QED BY <1>1, <1>2, <1>3, PTL DEF Spec, Hcc1Publishes, Cc1Publish!Spec

\* hcc-m1 implements Publish: what it writes begins the translation of what it
\* read, and is all of it when it reports success.
THEOREM HccM1Implements == Spec => M1Publishes
<1> DEFINE Inv == PipeInv /\ Texts /\ M1Told
<1>1. Init => M1Publish!Init
  BY DEF M1Publish!Init, Init, M1Status, Status, Programs
<1>2. Init => Inv
  BY PipeInitial, TextsInitial DEF Init, M1Told, Active
<1>3. Inv /\ [Next]_vars => Inv' /\ [M1Publish!Next]_(M1Publish!pubVars)
  BY PipeStep, TextsStep, M1Step
<1> QED BY <1>1, <1>2, <1>3, PTL DEF Spec, M1Publishes, M1Publish!Spec

\* Every program of the tool chain implements Publish at every point of a build.
THEOREM AllPublish == Spec => ProgramsPublish
BY HcppImplements, Hcc1Implements, HccM1Implements DEF ProgramsPublish
=================================================================================

-------------------------- MODULE ModelInstallProofs --------------------------
(***************************************************************************)
(* Proofs about ModelInstall, for any number of calls, any size of the     *)
(* model and any number of deaths: the module is type correct, no call     *)
(* that ended by itself leaves a temporary file, and as long as no two     *)
(* downloads run at once a download that reports success leaves the whole  *)
(* model and, where renameTo works, nothing but the whole model is taken   *)
(* for an installed one.                                                   *)
(***************************************************************************)
EXTENDS ModelInstall, TLAPS

\* Without overlap at most one call runs.
Solo == ~overlap => \A d, e \in Calls : Running(d) /\ Running(e) => d = e

\* Until a call opens its temporary file no name refers to it.
Before == {"idle", "clean", "request", "open"}
Fresh == \A d \in Calls : pc[d] \in Before
                             => final # <<d, "tmp">> /\ tmp # <<d, "tmp">>

\* Where a call writes or reads there is a file.
Open == \A d \in Calls : /\ pc[d] \in {"write", "copy"} => out[d] \in Inodes
                         /\ pc[d] = "copy" => src[d] \in Inodes

Complete(i) == inode[i].good = Blocks /\ inode[i].len = Size
Filled(d)   == inode[out[d]].good = 1 .. pos[d] /\ inode[out[d]].len = pos[d]

\* Where the bytes are while call d runs alone: the temporary file of a call
\* grows block by block, is whole from the end of the body on, and stays so
\* until the installed file, which is another one, is whole.
Progress(d) ==
    /\ pc[d] \in {"request", "open"} => tmp = NoFile
    /\ pc[d] = "write" => tmp = <<d, "tmp">> /\ out[d] = tmp /\ Filled(d)
    /\ pc[d] \in {"swap", "rename", "copyOpen", "copy"} =>
          tmp = <<d, "tmp">> /\ Complete(tmp)
    /\ pc[d] \in {"rename", "copyOpen"} => final = NoFile
    /\ pc[d] \in {"copyOpen", "copy"} => ~renameWorks
    /\ pc[d] = "copy" => /\ src[d] = tmp
                         /\ final = <<d, "final">> /\ out[d] = final
                         /\ Filled(d)
    /\ pc[d] \in {"write", "swap"} => final # tmp

InProgress == ~overlap => \A d \in Calls : Running(d) => Progress(d)

\* The installed file is whole wherever renameTo works.
FinalWhole == ~overlap /\ renameWorks /\ final # NoFile => Complete(final)

IInv == TypeOK /\ Open /\ Solo /\ Fresh /\ InProgress /\ FinalWhole /\ NoGarbage

-----------------------------------------------------------------------------
(* Files                                                                   *)

\* The files that a call makes are files, two of them, and the empty file has
\* no block.
LEMMA FileFacts ==
    /\ \A d \in Calls : /\ <<d, "tmp">> \in Inodes /\ <<d, "final">> \in Inodes
                        /\ <<d, "tmp">> # <<d, "final">>
    /\ Empty \in FileType /\ Empty.good = {} /\ Empty.len = 0
    /\ NoFile \notin Inodes
BY InstallConstants DEF Inodes, Empty, FileType

\* Opening a name for output gives the file of that name or the new one.
LEMMA OpenedFacts ==
    ASSUME NEW name \in Inodes \cup {NoFile}, NEW fresh \in Inodes
    PROVE  /\ Opened(name, fresh) \in Inodes
           /\ Opened(name, fresh) \in {name, fresh}
           /\ name = NoFile => Opened(name, fresh) = fresh
BY DEF Opened

\* A block written to a file gives a file.
LEMMA WrittenType ==
    ASSUME NEW f \in FileType, NEW n \in Blocks, NEW right \in BOOLEAN
    PROVE  Written(f, n, right) \in FileType
<1>1. (IF right THEN f.good \cup {n} ELSE f.good \ {n}) \in SUBSET Blocks
  BY DEF FileType
<1>2. (IF f.len < n THEN n ELSE f.len) \in 0 .. Size
  BY DEF FileType, Blocks
<1> QED BY <1>1, <1>2 DEF Written, FileType

\* Appending a block keeps the types and touches no file but the one that is
\* open; the right next block keeps the file filled.
LEMMA AppendFacts ==
    ASSUME TypeOK, NEW d \in Calls, NEW right \in BOOLEAN, Append(d, right),
           out[d] \in Inodes, pos[d] < Size, UNCHANGED renameWorks
    PROVE  /\ TypeOK'
           /\ \A i \in Inodes \ {out[d]} : inode'[i] = inode[i]
           /\ right /\ Filled(d) => Filled(d)'
<1>1. /\ pos[d] \in Nat /\ pos[d] + 1 \in Blocks /\ pos[d] + 1 \in 0 .. Size
  BY InstallConstants DEF TypeOK, Blocks
<1>2. Written(inode[out[d]], pos[d] + 1, right) \in FileType
  BY <1>1, WrittenType DEF TypeOK
<1>3. /\ inode' = [inode EXCEPT ![out[d]]
                             = Written(inode[out[d]], pos[d] + 1, right)]
      /\ pos' = [pos EXCEPT ![d] = pos[d] + 1] /\ out' = out
  BY DEF Append
<1>4. TypeOK'
  BY <1>1, <1>2, <1>3 DEF Append, TypeOK, names, vm
<1>5. \A i \in Inodes \ {out[d]} : inode'[i] = inode[i]
  BY <1>3 DEF TypeOK
<1>6. ASSUME right, Filled(d) PROVE Filled(d)'
  <2>1. inode'[out[d]] = Written(inode[out[d]], pos[d] + 1, right)
    BY <1>3 DEF TypeOK
  <2>2. pos'[d] = pos[d] + 1 /\ out'[d] = out[d]
    BY <1>3 DEF TypeOK
  <2>3. (1 .. pos[d]) \cup {pos[d] + 1} = 1 .. pos[d] + 1
    BY <1>1
  <2>4. inode[out[d]].good = 1 .. pos[d] /\ inode[out[d]].len = pos[d]
    BY <1>6 DEF Filled
  <2>5. /\ Written(inode[out[d]], pos[d] + 1, right).good = 1 .. pos[d] + 1
        /\ Written(inode[out[d]], pos[d] + 1, right).len = pos[d] + 1
    BY <1>1, <1>6, <2>3, <2>4 DEF Written
  <2> QED BY <2>1, <2>2, <2>5 DEF Filled
<1> QED BY <1>4, <1>5, <1>6

-----------------------------------------------------------------------------
(* The pieces that actions share                                           *)

VmType == /\ current \in Calls \cup {NoCall}
          /\ downloading \in BOOLEAN /\ downloaded \in BOOLEAN

\* When the one running call moves on, only its own progress is at stake.
LEMMA Alone ==
    ASSUME IInv, NEW d \in Calls, NEW p \in Points, Running(d), Goto(d, p),
           overlap' = overlap, ~overlap /\ p \notin Ended => Progress(d)'
    PROVE  Solo' /\ InProgress'
<1>1. \A e \in Calls : Running(e)' => Running(e) /\ (e = d => p \notin Ended)
  BY DEF IInv, TypeOK, Running, Goto
<1>2. ~overlap => \A e \in Calls : Running(e) => e = d
  BY DEF IInv, Solo
<1> QED BY <1>1, <1>2 DEF IInv, Solo, InProgress

\* A running call renames or deletes files and writes none.
LEMMA NamesOnly ==
    ASSUME IInv, NEW d \in Calls, NEW p \in Points \ {"write", "copy"},
           Running(d), Goto(d, p),
           UNCHANGED <<renameWorks, inode, io, deaths, overlap>>, VmType',
           tmp' \in {tmp, NoFile}, final' \in {final, tmp, NoFile},
           p \in Before => pc[d] \in Before,
           p \in Ended => tmp' = NoFile,
           ~overlap /\ p \notin Ended => Progress(d)',
           ~overlap /\ renameWorks /\ final' = tmp /\ tmp # NoFile
              => Complete(tmp)
    PROVE  IInv'
<1> USE DEF IInv
<1>1. TypeOK'
  BY DEF TypeOK, VmType, Goto, io
<1>2. Open'
  BY DEF TypeOK, Open, Goto, io
<1>3. Fresh'
  <2>1. \A e \in Calls : pc'[e] \in Before => pc[e] \in Before
    BY DEF TypeOK, Goto
  <2>2. \A e \in Calls : <<e, "tmp">> # NoFile
    BY FileFacts
  <2> QED BY <2>1, <2>2 DEF Fresh
<1>4. Solo' /\ InProgress'
  BY Alone
<1>5. FinalWhole'
  BY DEF FinalWhole, Complete
<1>6. NoGarbage'
  <2>1. \A e \in Calls \ {d} : pc'[e] = pc[e]
    BY DEF TypeOK, Goto
  <2>2. p \notin Ended => Running(d)'
    BY DEF TypeOK, Goto, Running
  <2> QED BY <2>1, <2>2 DEF NoGarbage, Running
<1> QED BY <1>1, <1>2, <1>3, <1>4, <1>5, <1>6

\* No file, name or call changes: only the view model.
LEMMA ViewModelOnly ==
    ASSUME IInv, UNCHANGED <<renameWorks, names, inode, pc, io, deaths, overlap>>,
           VmType'
    PROVE  IInv'
<1> USE DEF IInv, names, io
<1>1. TypeOK'
  BY DEF TypeOK, VmType
<1>2. Open' /\ Fresh' /\ Solo' /\ FinalWhole' /\ NoGarbage'
  BY DEF Open, Fresh, Solo, FinalWhole, NoGarbage, Running, Complete
<1>3. InProgress'
  BY DEF InProgress, Progress, Filled, Complete, Running
<1> QED BY <1>1, <1>2, <1>3

\* What the view model is told when a call returns has its types.
LEMMA ReturnType ==
    ASSUME TypeOK, NEW d \in Calls, NEW p, Return(d, p)
    PROVE  VmType' /\ Goto(d, p)
BY DEF TypeOK, Return, VmType

-----------------------------------------------------------------------------
(* The actions                                                             *)

\* The app starts with the invariant.
LEMMA InitInv == Init => IInv
<1> SUFFICES ASSUME Init PROVE IInv
  OBVIOUS
<1>1. TypeOK
  <2>1. inode \in [Inodes -> FileType] /\ deaths \in Nat
    BY FileFacts DEF Init
  <2>2. pc \in [Calls -> Points]
    BY DEF Init, Points, Ended
  <2>3. pos \in [Calls -> 0 .. Size]
    BY InstallConstants DEF Init
  <2>4. out \in [Calls -> Inodes \cup {NoFile}] /\ src \in [Calls -> Inodes \cup {NoFile}]
    BY DEF Init
  <2> QED BY <2>1, <2>2, <2>3, <2>4 DEF Init, TypeOK
<1>2. Open /\ Solo /\ InProgress
  BY DEF Init, Open, Solo, InProgress, Running, Ended
<1>3. Fresh /\ FinalWhole /\ NoGarbage
  BY FileFacts DEF Init, Fresh, FinalWhole, NoGarbage
<1> QED BY <1>1, <1>2, <1>3 DEF IInv

\* A call starts while another runs, which makes an overlap, or alone.
LEMMA DownloadModelInv ==
    ASSUME IInv, NEW d \in Calls, DownloadModel(d), UNCHANGED renameWorks
    PROVE  IInv'
<1> USE DEF IInv
<1>1. /\ UNCHANGED <<renameWorks, tmp, final, inode, out, src, pos>>
      /\ pc[d] = "idle" /\ pc' = [pc EXCEPT ![d] = "clean"]
      /\ overlap' = (overlap \/ \E e \in Calls : Running(e))
  BY DEF DownloadModel, Goto, names, io
<1>2. TypeOK'
  BY <1>1 DEF TypeOK, DownloadModel, Points, Ended
<1>3. Open' /\ Fresh'
  BY <1>1 DEF TypeOK, Open, Fresh, Before
<1>4. ASSUME ~overlap' PROVE \A e \in Calls : Running(e)' => e = d
  BY <1>1, <1>4 DEF TypeOK, Running
<1>5. Solo'
  BY <1>4 DEF Solo
<1>6. InProgress'
  <2>1. Progress(d)'
    BY <1>1 DEF TypeOK, Progress
  <2> QED BY <1>4, <2>1 DEF InProgress
<1>7. FinalWhole' /\ NoGarbage'
  <2>1. \A e \in Calls : Running(e) \/ pc[e] = "dead"
                            => Running(e)' \/ pc'[e] = "dead"
    BY <1>1 DEF TypeOK, Running, Ended
  <2>2. NoGarbage'
    BY <1>1, <2>1 DEF NoGarbage
  <2>3. ~overlap' => ~overlap
    BY <1>1
  <2>4. FinalWhole'
    BY <1>1, <2>3 DEF FinalWhole, Complete
  <2> QED BY <2>2, <2>4
<1> QED BY <1>2, <1>3, <1>5, <1>6, <1>7

\* The process dies: nothing runs any more, and the files stay.
LEMMA ProcessDeathInv ==
    ASSUME IInv, ProcessDeath, UNCHANGED renameWorks
    PROVE  IInv'
<1> USE DEF IInv
<1>1. /\ UNCHANGED <<renameWorks, tmp, final, inode, out, src, pos, overlap>>
      /\ pc' = [d \in Calls |-> IF Running(d) THEN "dead" ELSE pc[d]]
  BY DEF ProcessDeath, names, io
<1>2. TypeOK'
  <2>1. pc' \in [Calls -> Points]
    BY <1>1 DEF TypeOK, Points, Ended
  <2>2. deaths' \in Nat
    BY DEF ProcessDeath, TypeOK
  <2>3. VmType'
    BY DEF ProcessDeath, VmType, IsInstalled
  <2> QED BY <1>1, <2>1, <2>2, <2>3 DEF TypeOK, VmType
<1>3. \A d \in Calls : pc'[d] = "dead" \/ (pc'[d] = pc[d] /\ pc[d] \in Ended)
  BY <1>1 DEF Running
<1>4. \A d \in Calls : ~Running(d)' /\ (Running(d) => pc'[d] = "dead")
  BY <1>1, <1>3 DEF Running, Ended
<1>5. Open' /\ Fresh'
  BY <1>1, <1>3 DEF Open, Fresh, Before, Ended
<1>6. Solo' /\ InProgress'
  BY <1>4 DEF Solo, InProgress
<1>7. FinalWhole' /\ NoGarbage'
  BY <1>1, <1>3, <1>4 DEF FinalWhole, NoGarbage, Complete
<1> QED BY <1>2, <1>5, <1>6, <1>7

\* What the earlier downloads left is deleted, and the request is sent.
LEMMA PrepareInv ==
    ASSUME IInv, NEW d \in Calls, Clean(d) \/ Request(d), UNCHANGED renameWorks
    PROVE  IInv'
<1>1. PICK p \in {"request", "open"} :
         Goto(d, p) /\ (p = "open" => Request(d))
  BY DEF Clean, Request
<1>2. Running(d) /\ pc[d] \in Before
  BY DEF Clean, Request, Running, Ended, Before
<1>3. /\ tmp' \in {tmp, NoFile} /\ final' = final
      /\ UNCHANGED <<inode, io, deaths, overlap>> /\ VmType'
  BY DEF Clean, Request, names, io, vm, IInv, TypeOK, VmType
<1>4. ~overlap => Progress(d)'
  <2>1. ASSUME ~overlap PROVE tmp' = NoFile
    BY <1>2, <2>1 DEF Clean, Request, names, IInv, InProgress, Progress
  <2> QED BY <1>1, <2>1 DEF IInv, TypeOK, Goto, Progress
<1>5. p \in Points \ {"write", "copy"} /\ p \notin Ended /\ p \in Before
  BY <1>1 DEF Points, Ended, Before
<1>6. final' = tmp /\ ~overlap /\ renameWorks /\ tmp # NoFile => Complete(tmp)
  BY <1>3 DEF IInv, FinalWhole
<1> QED BY <1>1, <1>2, <1>3, <1>4, <1>5, <1>6, NamesOnly

\* The temporary file is opened, empty: in a run without overlap it is this
\* call's own.
LEMMA OpenTempInv ==
    ASSUME IInv, NEW d \in Calls, OpenTemp(d), UNCHANGED renameWorks
    PROVE  IInv'
<1> USE DEF IInv
<1> DEFINE i == Opened(tmp, <<d, "tmp">>)
<1>1. i \in Inodes /\ i \in {tmp, <<d, "tmp">>}
      /\ (tmp = NoFile => i = <<d, "tmp">>)
  BY FileFacts, OpenedFacts DEF TypeOK
<1> HIDE DEF i
<1>2. /\ pc[d] = "open" /\ Goto(d, "write") /\ tmp' = i /\ final' = final
      /\ inode' = [inode EXCEPT ![i] = Empty]
      /\ out' = [out EXCEPT ![d] = i] /\ src' = src
      /\ pos' = [pos EXCEPT ![d] = 0] /\ overlap' = overlap
  BY DEF OpenTemp, i
<1>3. TypeOK'
  BY <1>1, <1>2, FileFacts, InstallConstants
     DEF TypeOK, OpenTemp, Goto, Points, Ended, vm
<1>4. Open'
  BY <1>1, <1>2 DEF TypeOK, Open, Goto
<1>5. Fresh'
  BY <1>1, <1>2 DEF TypeOK, Fresh, Goto, Before
<1>6. Running(d) /\ "write" \in Points \ Ended
  BY <1>2 DEF Running, Ended, Points
<1>7. ASSUME ~overlap PROVE i = <<d, "tmp">> /\ final # i
  BY <1>1, <1>2, <1>6, <1>7 DEF InProgress, Progress, Fresh, Before
<1>8. ASSUME ~overlap PROVE Progress(d)'
  <2>1. pc'[d] = "write" /\ out'[d] = i /\ pos'[d] = 0 /\ inode'[i] = Empty
    BY <1>1, <1>2 DEF TypeOK, Goto
  <2>2. Filled(d)'
    BY <2>1, FileFacts DEF Filled
  <2> QED BY <1>2, <1>7, <1>8, <2>1, <2>2 DEF Progress
<1>9. Solo' /\ InProgress'
  BY <1>2, <1>6, <1>8, Alone
<1>10. FinalWhole'
  BY <1>2, <1>7 DEF TypeOK, FinalWhole, Complete
<1>11. NoGarbage'
  BY <1>2 DEF TypeOK, NoGarbage, Goto, Running, Ended
<1> QED BY <1>3, <1>4, <1>5, <1>9, <1>10, <1>11

\* A block of the body is written.
LEMMA ReadBodyInv ==
    ASSUME IInv, NEW d \in Calls, ReadBody(d), UNCHANGED renameWorks
    PROVE  IInv'
<1> USE DEF IInv
<1>1. /\ pc[d] = "write" /\ Append(d, TRUE) /\ out[d] \in Inodes
      /\ pos[d] < Size
  BY DEF ReadBody, Open
<1>2. UNCHANGED <<renameWorks, tmp, final, pc, out, src, overlap>>
  BY <1>1 DEF Append, names
<1>3. TypeOK'
  BY <1>1, AppendFacts
<1>4. Open' /\ Fresh' /\ Solo' /\ NoGarbage'
  BY <1>2 DEF Open, Fresh, Solo, NoGarbage, Running
<1>5. Running(d)
  BY <1>1 DEF Running, Ended
<1>6. ASSUME ~overlap PROVE Progress(d)'
  <2>1. Progress(d)
    BY <1>5, <1>6 DEF InProgress
  <2>2. Filled(d)'
    BY <1>1, <2>1, AppendFacts DEF Progress
  <2> QED BY <1>1, <1>2, <2>1, <2>2 DEF Progress
<1>7. InProgress'
  BY <1>2, <1>5, <1>6 DEF InProgress, Solo, Running
<1>8. FinalWhole'
  <2>1. ASSUME ~overlap PROVE final # out[d]
    BY <1>1, <1>5, <2>1 DEF InProgress, Progress
  <2>2. ASSUME ~overlap, final # NoFile PROVE inode'[final] = inode[final]
    BY <1>1, <2>1, <2>2, AppendFacts DEF TypeOK
  <2> QED BY <1>2, <2>2 DEF FinalWhole, Complete
<1> QED BY <1>3, <1>4, <1>7, <1>8

\* The body ends when all of it was written: the temporary file is whole.
LEMMA EndOfBodyInv ==
    ASSUME IInv, NEW d \in Calls, EndOfBody(d), UNCHANGED renameWorks
    PROVE  IInv'
<1>1. Running(d) /\ pc[d] = "write" /\ Goto(d, "swap") /\ pos[d] = Size
  BY DEF EndOfBody, BodyEnds, Running, Ended
<1>2. /\ UNCHANGED <<tmp, final, inode, io, deaths, overlap>> /\ VmType'
  BY DEF EndOfBody, names, vm, IInv, TypeOK, VmType
<1>3. ASSUME ~overlap PROVE Progress(d)'
  <2>1. Progress(d) /\ pc'[d] = "swap"
    BY <1>1, <1>3 DEF IInv, TypeOK, InProgress, Goto
  <2>2. Complete(tmp)
    BY <1>1, <2>1 DEF Progress, Filled, Complete, Blocks
  <2> QED BY <1>1, <1>2, <2>1, <2>2 DEF Progress, Complete
<1>4. final' = tmp /\ ~overlap /\ renameWorks /\ tmp # NoFile => Complete(tmp)
  BY <1>2 DEF IInv, FinalWhole
<1>5. "swap" \in Points \ {"write", "copy"} /\ "swap" \notin Ended \cup Before
  BY DEF Points, Ended, Before
<1> QED BY <1>1, <1>2, <1>3, <1>4, <1>5, NamesOnly

\* The old model is deleted.
LEMMA DeleteFinalInv ==
    ASSUME IInv, NEW d \in Calls, DeleteFinal(d), UNCHANGED renameWorks
    PROVE  IInv'
<1>1. Running(d) /\ pc[d] = "swap" /\ Goto(d, "rename") /\ final' = NoFile
  BY DEF DeleteFinal, Running, Ended
<1>2. UNCHANGED <<tmp, inode, io, deaths, overlap>> /\ VmType'
  BY DEF DeleteFinal, vm, IInv, TypeOK, VmType
<1>3. ASSUME ~overlap PROVE Progress(d)'
  BY <1>1, <1>2, <1>3 DEF IInv, TypeOK, InProgress, Goto, Progress, Complete
<1>4. "rename" \in Points \ {"write", "copy"} /\ "rename" \notin Ended \cup Before
  BY DEF Points, Ended, Before
<1> QED BY <1>1, <1>2, <1>3, <1>4, NamesOnly

\* The temporary file becomes the model.
LEMMA RenameToInv ==
    ASSUME IInv, NEW d \in Calls, RenameTo(d), UNCHANGED renameWorks
    PROVE  IInv'
<1>1. Running(d) /\ pc[d] = "rename" /\ final' = tmp /\ tmp' = NoFile
  BY DEF RenameTo, Running, Ended
<1>2. /\ UNCHANGED <<inode, io, deaths, overlap>> /\ VmType' /\ Goto(d, "done")
  BY ReturnType DEF RenameTo, IInv
<1>3. ASSUME ~overlap PROVE Complete(tmp)
  BY <1>1, <1>3 DEF IInv, InProgress, Progress
<1>4. "done" \in Points \ {"write", "copy"} /\ "done" \in Ended \ Before
  BY DEF Points, Ended, Before
<1> QED BY <1>1, <1>2, <1>3, <1>4, NamesOnly

\* Where renameTo does not work the file is copied.
LEMMA RenameFailsInv ==
    ASSUME IInv, NEW d \in Calls, RenameFails(d), UNCHANGED renameWorks
    PROVE  IInv'
<1>1. /\ Running(d) /\ pc[d] = "rename" /\ Goto(d, "copyOpen")
      /\ ~renameWorks \/ tmp = NoFile
  BY DEF RenameFails, Running, Ended
<1>2. UNCHANGED <<tmp, final, inode, io, deaths, overlap>> /\ VmType'
  BY DEF RenameFails, names, vm, IInv, TypeOK, VmType
<1>3. ASSUME ~overlap PROVE Progress(d)'
  <2>1. Progress(d) /\ pc'[d] = "copyOpen"
    BY <1>1, <1>3 DEF IInv, TypeOK, InProgress, Goto
  <2>2. tmp # NoFile
    BY <1>1, <2>1, FileFacts DEF Progress
  <2> QED BY <1>1, <1>2, <2>1, <2>2 DEF Progress, Complete
<1>4. final' = tmp /\ ~overlap /\ renameWorks /\ tmp # NoFile => Complete(tmp)
  BY <1>1
<1>5. /\ "copyOpen" \in Points \ {"write", "copy"}
      /\ "copyOpen" \notin Ended \cup Before
  BY DEF Points, Ended, Before
<1> QED BY <1>1, <1>2, <1>3, <1>4, <1>5, NamesOnly

\* The copy goes to a new file.
LEMMA CopyOpenInv ==
    ASSUME IInv, NEW d \in Calls, CopyOpen(d), UNCHANGED renameWorks
    PROVE  IInv'
<1> USE DEF IInv
<1> DEFINE i == Opened(final, <<d, "final">>)
<1>1. i \in Inodes /\ i \in {final, <<d, "final">>}
      /\ (final = NoFile => i = <<d, "final">>)
  BY FileFacts, OpenedFacts DEF TypeOK
<1> HIDE DEF i
<1>2. /\ pc[d] = "copyOpen" /\ Goto(d, "copy") /\ final' = i /\ tmp' = tmp
      /\ inode' = [inode EXCEPT ![i] = Empty]
      /\ out' = [out EXCEPT ![d] = i] /\ src' = [src EXCEPT ![d] = tmp]
      /\ pos' = [pos EXCEPT ![d] = 0] /\ overlap' = overlap
      /\ tmp \in Inodes
  BY DEF CopyOpen, i, TypeOK
<1>3. TypeOK'
  BY <1>1, <1>2, FileFacts, InstallConstants
     DEF TypeOK, CopyOpen, Goto, Points, Ended, vm
<1>4. Open'
  BY <1>1, <1>2 DEF TypeOK, Open, Goto
<1>5. Fresh'
  <2>1. \A e \in Calls : <<e, "tmp">> # <<d, "final">>
    OBVIOUS
  <2> QED BY <1>1, <1>2, <2>1 DEF TypeOK, Fresh, Goto, Before
<1>6. Running(d) /\ "copy" \in Points \ Ended
  BY <1>2 DEF Running, Ended, Points
<1>7. ASSUME ~overlap PROVE Progress(d) /\ i = <<d, "final">> /\ tmp # i
  <2>1. Progress(d)
    BY <1>6, <1>7 DEF InProgress
  <2> QED BY <1>1, <1>2, <2>1, FileFacts DEF Progress
<1>8. ASSUME ~overlap PROVE Progress(d)'
  <2>1. /\ pc'[d] = "copy" /\ out'[d] = i /\ src'[d] = tmp /\ pos'[d] = 0
        /\ inode'[i] = Empty
    BY <1>1, <1>2 DEF TypeOK, Goto
  <2>2. Filled(d)'
    BY <2>1, FileFacts DEF Filled
  <2>3. inode'[tmp] = inode[tmp]
    BY <1>2, <1>7, <1>8 DEF TypeOK
  <2> QED BY <1>2, <1>7, <1>8, <2>1, <2>2, <2>3 DEF Progress, Complete
<1>9. Solo' /\ InProgress'
  BY <1>2, <1>6, <1>8, Alone
<1>10. FinalWhole'
  BY <1>2, <1>7 DEF FinalWhole, Progress
<1>11. NoGarbage'
  BY <1>2 DEF TypeOK, NoGarbage, Goto, Running, Ended
<1> QED BY <1>3, <1>4, <1>5, <1>9, <1>10, <1>11

\* A block is copied: right, if it was right in the file that is read.
LEMMA CopyInv ==
    ASSUME IInv, NEW d \in Calls, Copy(d), UNCHANGED renameWorks
    PROVE  IInv'
<1> USE DEF IInv
<1> DEFINE right == pos[d] + 1 \in inode[src[d]].good
<1>1. /\ pc[d] = "copy" /\ Append(d, right) /\ out[d] \in Inodes
      /\ src[d] \in Inodes /\ right \in BOOLEAN
  BY DEF Copy, Open
<1>2. pos[d] < Size
  <2>1. inode[src[d]].len \in 0 .. Size
    BY <1>1 DEF TypeOK, FileType
  <2> QED BY <2>1, InstallConstants DEF Copy, TypeOK
<1>3. UNCHANGED <<renameWorks, tmp, final, pc, out, src, overlap>>
  BY <1>1 DEF Append, names
<1>4. TypeOK'
  BY <1>1, <1>2, AppendFacts
<1>5. Open' /\ Fresh' /\ Solo' /\ NoGarbage'
  BY <1>3 DEF Open, Fresh, Solo, NoGarbage, Running
<1>6. Running(d)
  BY <1>1 DEF Running, Ended
<1>7. ASSUME ~overlap PROVE Progress(d)' /\ ~renameWorks
  <2>1. Progress(d)
    BY <1>6, <1>7 DEF InProgress
  <2>2. right
    <3>1. inode[src[d]].good = Blocks
      BY <1>1, <2>1 DEF Progress, Complete
    <3>2. pos[d] + 1 \in Blocks
      BY <1>2, InstallConstants DEF TypeOK, Blocks
    <3> QED BY <3>1, <3>2
  <2>3. Filled(d)'
    BY <1>1, <1>2, <2>1, <2>2, AppendFacts DEF Progress
  <2>4. tmp \in Inodes /\ tmp # out[d]
    BY <1>1, <2>1, FileFacts DEF Progress
  <2>5. inode'[tmp] = inode[tmp]
    BY <1>1, <1>2, <2>4, AppendFacts
  <2> QED BY <1>1, <1>3, <2>1, <2>3, <2>5 DEF Progress, Complete
<1>8. InProgress'
  BY <1>3, <1>6, <1>7 DEF InProgress, Solo, Running
<1>9. FinalWhole'
  BY <1>3, <1>7 DEF FinalWhole
<1> QED BY <1>4, <1>5, <1>8, <1>9

\* A call ends otherwise: it copied the file, or something failed. Either way
\* it deletes the temporary file and leaves the installed one alone.
LEMMA EndsInv ==
    ASSUME IInv, NEW d \in Calls, CopyDone(d) \/ Fails(d), UNCHANGED renameWorks
    PROVE  IInv'
<1>1. PICK p \in {"done", "failed"} : Return(d, p)
  BY DEF CopyDone, Fails
<1>2. /\ Running(d) /\ tmp' = NoFile /\ final' = final
      /\ UNCHANGED <<inode, io, deaths, overlap>>
  BY DEF CopyDone, Fails, Running, Ended
<1>3. VmType' /\ Goto(d, p)
  BY <1>1, ReturnType DEF IInv
<1>4. final' = tmp /\ ~overlap /\ renameWorks /\ tmp # NoFile => Complete(tmp)
  BY <1>2 DEF IInv, FinalWhole
<1>5. p \in Points \ {"write", "copy"} /\ p \in Ended \ Before
  BY <1>1 DEF Points, Ended, Before
<1> QED BY <1>2, <1>3, <1>4, <1>5, NamesOnly

-----------------------------------------------------------------------------
(* The theorems                                                            *)

\* Every step keeps the invariant.
LEMMA StepInv == IInv /\ [Next]_vars => IInv'
<1> SUFFICES ASSUME IInv, [Next]_vars PROVE IInv'
  OBVIOUS
<1>1. ASSUME RefreshSystemStatus, UNCHANGED renameWorks PROVE IInv'
  BY <1>1, ViewModelOnly
     DEF RefreshSystemStatus, IsInstalled, IInv, TypeOK, VmType
<1>2. ASSUME NewViewModel, UNCHANGED renameWorks PROVE IInv'
  BY <1>2, ViewModelOnly DEF NewViewModel, IsInstalled, VmType
<1>3. ASSUME ProcessDeath, UNCHANGED renameWorks PROVE IInv'
  BY <1>3, ProcessDeathInv
<1>4. ASSUME NEW d \in Calls, UNCHANGED renameWorks,
             \/ DownloadModel(d) \/ Clean(d) \/ Request(d) \/ OpenTemp(d)
             \/ ReadBody(d) \/ EndOfBody(d) \/ DeleteFinal(d) \/ RenameTo(d)
             \/ RenameFails(d) \/ CopyOpen(d) \/ Copy(d) \/ CopyDone(d)
             \/ Fails(d)
      PROVE  IInv'
  BY <1>4, DownloadModelInv, PrepareInv, OpenTempInv, ReadBodyInv,
     EndOfBodyInv, DeleteFinalInv, RenameToInv, RenameFailsInv, CopyOpenInv,
     CopyInv, EndsInv
<1>5. CASE UNCHANGED vars
  BY <1>5, ViewModelOnly DEF vars, vm, IInv, TypeOK, VmType
<1> QED BY <1>1, <1>2, <1>3, <1>4, <1>5 DEF Next, Step

\* The inductive invariant holds in every reachable state.
THEOREM Invariant == Spec => []IInv
<1>1. Init => IInv
  BY InitInv
<1>2. IInv /\ [Next]_vars => IInv'
  BY StepInv
<1> QED BY <1>1, <1>2, PTL DEF Spec

\* Names, files and calls keep their types.
THEOREM TypeCorrect == Spec => []TypeOK
<1>1. IInv => TypeOK
  BY DEF IInv
<1> QED BY <1>1, Invariant, PTL

\* NoGarbage: a call of download that ended by itself left no temporary file,
\* whatever other calls did meanwhile.
THEOREM NothingLeft == Spec => []NoGarbage
<1>1. IInv => NoGarbage
  BY DEF IInv
<1> QED BY <1>1, Invariant, PTL

\* InstalledIsWhole: where renameTo works and no two downloads ran at once,
\* what isInstalled accepts is the whole model, wherever the process died.
THEOREM InstalledWhole == Spec => []InstalledIsWhole
<1>1. IInv => InstalledIsWhole
  BY DEF IInv, FinalWhole, InstalledIsWhole, IsInstalled, Whole, Complete
<1> QED BY <1>1, Invariant, PTL

\* A step with which a call reports success leaves the whole model: it renamed
\* its temporary file, which was whole, or has copied all of it.
LEMMA SuccessStep ==
    ASSUME IInv, [Next]_vars, NEW d \in Calls, ~overlap, pc[d] # "done",
           pc'[d] = "done"
    PROVE  Whole(final)'
<1>1. PICK e \in Calls : RenameTo(e) \/ CopyDone(e)
  BY DEF IInv, TypeOK, Next, Step, vars, RefreshSystemStatus, NewViewModel,
         ProcessDeath, DownloadModel, Clean, Request, OpenTemp, ReadBody,
         EndOfBody, DeleteFinal, RenameFails, CopyOpen, Copy, Fails, Append,
         Goto, Return
<1>2. Running(e) /\ inode' = inode
  BY <1>1 DEF RenameTo, CopyDone, Running, Ended
<1>3. Progress(e)
  BY <1>2 DEF IInv, InProgress
<1>4. CASE RenameTo(e)
  <2>1. final' = tmp /\ Complete(tmp) /\ tmp = <<e, "tmp">>
    BY <1>3, <1>4 DEF RenameTo, Progress
  <2> QED BY <1>2, <2>1, FileFacts DEF Whole, Complete
<1>5. CASE CopyDone(e)
  <2>1. /\ final' = final /\ final = <<e, "final">> /\ out[e] = final
        /\ inode[src[e]].len = Size /\ pos[e] >= inode[src[e]].len /\ Filled(e)
    BY <1>3, <1>5 DEF CopyDone, Progress, Complete
  <2>2. pos[e] = Size
    BY <2>1, InstallConstants DEF IInv, TypeOK
  <2> QED BY <1>2, <2>1, <2>2, FileFacts DEF Whole, Filled, Blocks
<1> QED BY <1>1, <1>4, <1>5

\* SuccessIsInstalled: as long as no two downloads run at once, a download that
\* reports success, by rename or by copy, leaves the whole model behind.
THEOREM SuccessWhole == Spec => SuccessIsInstalled
<1>1. IInv /\ [Next]_vars
         => [\A d \in Calls : ~overlap /\ pc[d] # "done" /\ pc'[d] = "done"
                                 => Whole(final)']_vars
  BY SuccessStep
<1> QED BY <1>1, Invariant, PTL DEF Spec, SuccessIsInstalled
=============================================================================

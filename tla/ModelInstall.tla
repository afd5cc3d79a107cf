----------------------------- MODULE ModelInstall -----------------------------
(***************************************************************************)
(* Installing the local language model: AiChatViewModel.downloadModel and  *)
(* ModelDownloadManager.download, against the death of the process at any  *)
(* point and against a second AiChatViewModel whose download starts while  *)
(* the blocking download of the first still runs.                          *)
(*                                                                         *)
(* A file is an inode with a length and the blocks of it that are right;   *)
(* a name (tmp, final) refers to an inode or to nothing, so that a writer  *)
(* keeps its inode when the name is deleted or renamed.                    *)
(***************************************************************************)
EXTENDS Integers

CONSTANTS
    Calls,        \* calls of downloadModel that pass its guard
    NoCall,       \* the view model has started no download
    NoFile,       \* a name that refers to nothing
    Size,         \* blocks of the model
    Plausible,    \* isInstalled wants more than this (1 GB of 2.4 GB)
    MaxDeaths     \* bound on the deaths of the process

ASSUME InstallConstants ==
    /\ NoCall \notin Calls
    /\ NoFile \notin Calls \X {"tmp", "final"}
    /\ Size \in Nat /\ Plausible \in Nat /\ Plausible < Size
    /\ MaxDeaths \in Nat

Blocks == 1 .. Size
Inodes == Calls \X {"tmp", "final"}
FileType == [good : SUBSET Blocks, len : 0 .. Size]
Empty == [good |-> {}, len |-> 0]

VARIABLES
    renameWorks,  \* does renameTo work on this device?
    tmp,          \* inode named phi3-mini-q4.gguf.tmp
    final,        \* inode named phi3-mini-q4.gguf
    inode,        \* contents of the inodes
    pc,           \* where each call of download is
    out,          \* inode the call has open for writing
    src,          \* inode the call has open for reading (copyAndCleanup)
    pos,          \* blocks the call has written to out
    current,      \* the call the present view model started last
    downloading,  \* its isDownloading
    downloaded,   \* its isModelDownloaded
    deaths,       \* deaths of the process
    overlap       \* ghost: a call started while another was running

names == <<tmp, final>>
io    == <<out, src, pos>>
vm    == <<current, downloading, downloaded>>
vars  == <<renameWorks, names, inode, pc, io, vm, deaths, overlap>>

Ended == {"idle", "done", "failed", "dead"}
Points == Ended \cup {"clean", "request", "open", "write", "swap", "rename",
                      "copyOpen", "copy"}

TypeOK ==
    /\ renameWorks \in BOOLEAN
    /\ tmp \in Inodes \cup {NoFile}
    /\ final \in Inodes \cup {NoFile}
    /\ inode \in [Inodes -> FileType]
    /\ pc \in [Calls -> Points]
    /\ out \in [Calls -> Inodes \cup {NoFile}]
    /\ src \in [Calls -> Inodes \cup {NoFile}]
    /\ pos \in [Calls -> 0 .. Size]
    /\ current \in Calls \cup {NoCall}
    /\ downloading \in BOOLEAN
    /\ downloaded \in BOOLEAN
    /\ deaths \in Nat
    /\ overlap \in BOOLEAN

\* isInstalled: the file exists and its length is plausible.
IsInstalled == final # NoFile /\ inode[final].len > Plausible

Whole(i) == i # NoFile /\ inode[i].good = Blocks

Init ==
    /\ renameWorks \in BOOLEAN
    /\ tmp = NoFile
    /\ final = NoFile
    /\ inode = [i \in Inodes |-> Empty]
    /\ pc = [d \in Calls |-> "idle"]
    /\ out = [d \in Calls |-> NoFile]
    /\ src = [d \in Calls |-> NoFile]
    /\ pos = [d \in Calls |-> 0]
    /\ current = NoCall
    /\ downloading = FALSE
    /\ downloaded = FALSE
    /\ deaths = 0
    /\ overlap = FALSE

-----------------------------------------------------------------------------
(* AiChatViewModel.                                                        *)

Running(d) == pc[d] \notin Ended

Goto(d, point) == pc' = [pc EXCEPT ![d] = point]

\* The card with the button is shown while no model is known; the guard on
\* isDownloading is that of this view model.
DownloadModel(d) ==
    /\ pc[d] = "idle"
    /\ ~downloaded /\ ~downloading
    /\ Goto(d, "clean")
    /\ current' = d
    /\ downloading' = TRUE
    /\ overlap' = (overlap \/ \E e \in Calls : Running(e))
    /\ UNCHANGED <<names, inode, io, downloaded, deaths>>

\* refreshSystemStatus, when the screen is shown.
RefreshSystemStatus ==
    /\ downloaded' = IsInstalled
    /\ UNCHANGED <<names, inode, pc, io, current, downloading, deaths, overlap>>

\* The screen is left and opened again: the new view model knows of no
\* download. Cancelling the old scope does not stop a blocking download.
NewViewModel ==
    /\ current' = NoCall
    /\ downloading' = FALSE
    /\ downloaded' = IsInstalled
    /\ UNCHANGED <<names, inode, pc, io, deaths, overlap>>

\* download returns or throws; its view model, if it is still there, says so.
Return(d, point) ==
    /\ Goto(d, point)
    /\ downloading' = (downloading /\ current # d)
    /\ downloaded' = (downloaded \/ (current = d /\ point = "done"))
    /\ UNCHANGED current

\* The process dies: every call is gone, the files stay as they are.
ProcessDeath ==
    /\ deaths < MaxDeaths
    /\ deaths' = deaths + 1
    /\ pc' = [d \in Calls |-> IF Running(d) THEN "dead" ELSE pc[d]]
    /\ current' = NoCall
    /\ downloading' = FALSE
    /\ downloaded' = IsInstalled
    /\ UNCHANGED <<names, inode, io, overlap>>

-----------------------------------------------------------------------------
(* ModelDownloadManager.download.                                          *)

\* if (tempFile.exists()) tempFile.delete()
Clean(d) ==
    /\ pc[d] = "clean"
    /\ tmp' = NoFile
    /\ Goto(d, "request")
    /\ UNCHANGED <<final, inode, io, vm, deaths, overlap>>

\* The response is successful and has a body.
Request(d) ==
    /\ pc[d] = "request"
    /\ Goto(d, "open")
    /\ UNCHANGED <<names, inode, io, vm, deaths, overlap>>

\* Opening a name for output truncates the file of that name or makes one.
Opened(name, fresh) == IF name = NoFile THEN fresh ELSE name

OpenTemp(d) ==
    /\ pc[d] = "open"
    /\ LET i == Opened(tmp, <<d, "tmp">>)
       IN  /\ tmp' = i
           /\ inode' = [inode EXCEPT ![i] = Empty]
           /\ out' = [out EXCEPT ![d] = i]
    /\ pos' = [pos EXCEPT ![d] = 0]
    /\ Goto(d, "write")
    /\ UNCHANGED <<final, src, vm, deaths, overlap>>

\* Mutant: every write makes the file longer.
WrittenLonger(f, n, right) ==
    [good |-> IF right THEN f.good \cup {n} ELSE f.good \ {n},
     len  |-> f.len + 1]

\* Block n is written to file f; right says whether it holds the right bytes.
Written(f, n, right) ==
    [good |-> IF right THEN f.good \cup {n} ELSE f.good \ {n},
     len  |-> IF f.len < n THEN n ELSE f.len]

Append(d, right) ==
    LET n == pos[d] + 1
    IN  /\ inode' = [inode EXCEPT ![out[d]] = Written(inode[out[d]], n, right)]
        /\ pos' = [pos EXCEPT ![d] = n]
        /\ UNCHANGED <<names, pc, out, src, vm, deaths, overlap>>

ReadBody(d) ==
    /\ pc[d] = "write"
    /\ pos[d] < Size
    /\ Append(d, TRUE)

\* Mutant: the loop leaves one read early.
BodyEndsEarly(d) == pos[d] >= Size - 1

\* read() returns -1: all of the body has come.
BodyEnds(d) == pos[d] = Size

EndOfBody(d) ==
    /\ pc[d] = "write"
    /\ BodyEnds(d)
    /\ Goto(d, "swap")
    /\ UNCHANGED <<names, inode, io, vm, deaths, overlap>>

\* A model that is already there is deleted.
DeleteFinal(d) ==
    /\ pc[d] = "swap"
    /\ final' = NoFile
    /\ Goto(d, "rename")
    /\ UNCHANGED <<tmp, inode, io, vm, deaths, overlap>>

RenameTo(d) ==
    /\ pc[d] = "rename"
    /\ renameWorks /\ tmp # NoFile
    /\ final' = tmp
    /\ tmp' = NoFile
    /\ Return(d, "done")
    /\ UNCHANGED <<inode, io, deaths, overlap>>

RenameFails(d) ==
    /\ pc[d] = "rename"
    /\ ~renameWorks \/ tmp = NoFile
    /\ Goto(d, "copyOpen")
    /\ UNCHANGED <<names, inode, io, vm, deaths, overlap>>

CopyOpen(d) ==
    /\ pc[d] = "copyOpen"
    /\ tmp # NoFile
    /\ LET i == Opened(final, <<d, "final">>)
       IN  /\ final' = i
           /\ inode' = [inode EXCEPT ![i] = Empty]
           /\ out' = [out EXCEPT ![d] = i]
    /\ src' = [src EXCEPT ![d] = tmp]
    /\ pos' = [pos EXCEPT ![d] = 0]
    /\ Goto(d, "copy")
    /\ UNCHANGED <<tmp, vm, deaths, overlap>>

Copy(d) ==
    /\ pc[d] = "copy"
    /\ pos[d] < inode[src[d]].len
    /\ Append(d, pos[d] + 1 \in inode[src[d]].good)

\* Mutant: the copy is not awaited.
CopyDoneEarly(d) ==
    /\ pc[d] = "copy"
    /\ final # NoFile /\ inode[final].len > 0
    /\ tmp' = NoFile
    /\ Return(d, "done")
    /\ UNCHANGED <<final, inode, io, deaths, overlap>>

\* dest exists and is not empty: the temporary file is deleted.
CopyDone(d) ==
    /\ pc[d] = "copy"
    /\ pos[d] >= inode[src[d]].len
    /\ final # NoFile /\ inode[final].len > 0
    /\ tmp' = NoFile
    /\ Return(d, "done")
    /\ UNCHANGED <<final, inode, io, deaths, overlap>>

\* Mutant: the temporary file stays.
FailsUncleaned(d) ==
    /\ pc[d] \in {"request", "open", "write", "swap", "copyOpen", "copy"}
    /\ Return(d, "failed")
    /\ UNCHANGED <<names, inode, io, deaths, overlap>>

\* Anything throws: no connection, a broken body, a full disk, a file that
\* cannot be deleted or is not there. The temporary file is deleted.
Fails(d) ==
    /\ pc[d] \in {"request", "open", "write", "swap", "copyOpen", "copy"}
    /\ tmp' = NoFile
    /\ Return(d, "failed")
    /\ UNCHANGED <<final, inode, io, deaths, overlap>>

Step ==
    \/ RefreshSystemStatus
    \/ NewViewModel
    \/ ProcessDeath
    \/ \E d \in Calls : \/ DownloadModel(d)
                        \/ Clean(d)
                        \/ Request(d)
                        \/ OpenTemp(d)
                        \/ ReadBody(d)
                        \/ EndOfBody(d)
                        \/ DeleteFinal(d)
                        \/ RenameTo(d)
                        \/ RenameFails(d)
                        \/ CopyOpen(d)
                        \/ Copy(d)
                        \/ CopyDone(d)
                        \/ Fails(d)

\* What renameTo can do does not change while the app is installed.
Next == Step /\ UNCHANGED renameWorks

Spec == Init /\ [][Next]_vars

-----------------------------------------------------------------------------
(* Properties that hold; the first two as long as no two downloads run at  *)
(* once.                                                                   *)

\* Where renameTo works, isInstalled is right about the file, wherever the
\* process died: the length test can only be met by the whole model.
InstalledIsWhole ==
    renameWorks /\ ~overlap /\ IsInstalled => Whole(final)

\* A download that reports success leaves the whole model behind, be it by
\* rename or by copy, after any history of failures and deaths.
SuccessIsInstalled ==
    [][\A d \in Calls : ~overlap /\ pc[d] # "done" /\ pc'[d] = "done"
                           => Whole(final)']_vars

\* A call that ended by itself left no temporary file, overlap or not.
NoGarbage ==
    tmp # NoFile => \E d \in Calls : Running(d) \/ pc[d] = "dead"

=============================================================================

---------------------------- MODULE FtpTransfer ----------------------------
(***************************************************************************)
(* curlDemo.cpp: main uploads one file with FtpUpload, which retries and   *)
(* resumes, then downloads another with FtpDownload, which resumes what an *)
(* earlier run left.  The process may die at any moment and be run again.  *)
(* Files are sequences of blocks: block i of the file being sent is i, and *)
(* Old is a block of whatever a file held before.  libcurl and the server  *)
(* are external: a transfer may be refused before it changes anything, may *)
(* break after any number of blocks, or may end well.  What a retry of     *)
(* FtpUpload does depends on libcurl: NOBODY set to 1 for the probe and    *)
(* back to 0 leaves a handle that downloads in the one beside the code     *)
(* (include/curl/curlver.h: 8.8.0-DEV), and one that uploads again, as the *)
(* code relies on, in those before 7.71.                                   *)
(***************************************************************************)
EXTENDS Naturals, Sequences, SequencesExt

CONSTANTS NoFile,      \* a file that does not exist
          Length,      \* blocks of the file to upload and of the one to download
          OldLengths,  \* lengths a file of the same name may already have
          Tries,       \* attempts of FtpUpload
          Libcurls,    \* those to run with: whether a handle uploads again after a probe
          ReadsFail,   \* whether reads of the file to upload may fail
          MaxCrashes   \* bound: how often the process dies

ASSUME FtpAssumption ==
  /\ Length \in Nat /\ Tries \in Nat /\ MaxCrashes \in Nat
  /\ OldLengths \subseteq Nat /\ Libcurls \subseteq BOOLEAN /\ ReadsFail \in BOOLEAN
  /\ NoFile \notin Seq(Nat)

Source == [i \in 1..Length |-> i]
Old == 0
OldFiles == {[i \in 1..n |-> Old] : n \in OldLengths}

VARIABLES
  pc,           \* where main is
  remote,       \* the upload's target on the server
  c,            \* attempts made by FtpUpload
  ret,          \* CURLcode of the last perform
  uploadedLen,  \* what getContentLengthFunc stored
  ferr,         \* the error flag of the FILE * of the upload (ferror)
  local,        \* the download's target on disk
  buffer,       \* what the FILE * of the download has not written yet
  received,     \* where the transfer of the download has got to
  result,       \* return value of each function
  fresh,        \* ghost: the remote file has only held this call's data
  blind,        \* ghost: this call resumed at a length the server did not report
  ours,         \* ghost: the local file has only been written by FtpDownload
  crashes,
  reuploads     \* which libcurl the program runs with

uploadVars == <<remote, c, ret, uploadedLen, ferr, fresh, blind>>
downloadVars == <<local, buffer, received, ours>>
vars == <<pc, uploadVars, downloadVars, result, crashes, reuploads>>

Init ==
  /\ pc = "upload"
  /\ remote \in OldFiles \cup {NoFile}
  /\ c = 0 /\ ret = "fail" /\ uploadedLen = 0
  /\ local \in OldFiles \cup {NoFile}
  /\ buffer = <<>> /\ received = 0
  /\ result = [upload |-> "none", download |-> "none"]
  /\ ferr = FALSE /\ fresh = FALSE /\ blind = FALSE
  /\ ours = (local = NoFile)
  /\ crashes = 0 /\ reuploads \in Libcurls

Content(f) == IF f = NoFile THEN <<>> ELSE f
Return(f, r) == result' = [result EXCEPT ![f] = r]

-----------------------------------------------------------------------------
(* FtpUpload                                                               *)

\* The local file cannot be opened.
UploadNoFile ==
  /\ pc = "upload"
  /\ Return("upload", "fail") /\ pc' = "download"
  /\ UNCHANGED <<uploadVars, downloadVars, crashes, reuploads>>

StartUpload ==
  /\ pc = "upload"
  /\ c' = 0 /\ ret' = "fail" /\ uploadedLen' = 0 /\ ferr' = FALSE
  /\ fresh' = (remote = NoFile) /\ blind' = FALSE
  /\ pc' = "attempt"
  /\ UNCHANGED <<remote, downloadVars, result, crashes, reuploads>>

\* What comes of k blocks that readfunc has handed out of rest.  All are sent
\* well, or the transfer breaks; when the error flag is set, readfunc aborts
\* it before the first.  A read that fails sets the flag: with bytes read the
\* next call of readfunc aborts, with none its 0 is the end of the file to
\* libcurl, which was not told a size to expect.
Sent(rest, k) ==
  \/ ret' = "fail" /\ (ferr => k = 0) /\ UNCHANGED ferr
  \/ ret' = "ok" /\ ~ferr /\ k = Len(rest) /\ UNCHANGED ferr
  \/ ret' \in {"ok", "fail"} /\ ReadsFail /\ ~ferr /\ ferr' = TRUE

\* curl_easy_perform of an upload that sends Source from the file position
\* and writes it after base on the server, or is refused.
Transfer(base, position) ==
  LET rest == SubSeq(Source, position + 1, Length) IN
  \/ ret' = "fail" /\ UNCHANGED <<remote, ferr, fresh>>
  \/ \E k \in 0..Len(rest) :
       /\ remote' = base \o SubSeq(rest, 1, k)
       /\ fresh' = (fresh \/ base = <<>>)
       /\ Sent(rest, k)

TryAgain == ret # "ok" /\ c < Tries

\* The first attempt: APPEND is 0, the server truncates the file.
Store ==
  /\ pc = "attempt" /\ TryAgain /\ c = 0
  /\ Transfer(<<>>, 0)
  /\ c' = c + 1
  /\ UNCHANGED <<pc, uploadedLen, blind, downloadVars, result, crashes, reuploads>>

\* A later attempt first asks for the length of the file already written
\* (NOBODY, HEADER); getContentLengthFunc stores it if a header reports it,
\* which a server without SIZE does not.
ProbeFails ==
  /\ pc = "attempt" /\ TryAgain /\ c > 0
  /\ ret' = "fail" /\ c' = c + 1
  /\ UNCHANGED <<pc, remote, uploadedLen, ferr, fresh, blind, downloadVars, result, crashes, reuploads>>

Probe ==
  /\ pc = "attempt" /\ TryAgain /\ c > 0
  /\ remote # NoFile
  /\ ret' = "ok"
  /\ uploadedLen' \in {Len(remote), uploadedLen}
  /\ pc' = "append"
  /\ UNCHANGED <<remote, c, ferr, fresh, blind, downloadVars, result, crashes, reuploads>>

\* Mutant: the file position is left at the start.
AppendFromStart ==
  /\ pc = "append" /\ reuploads
  /\ Transfer(Content(remote), 0)
  /\ blind' = (blind \/ uploadedLen # Len(remote))
  /\ c' = c + 1 /\ pc' = "attempt"
  /\ UNCHANGED <<uploadedLen, downloadVars, result, crashes, reuploads>>

\* fseek to uploaded_len, APPEND is 1, and the handle uploads.
AppendRest ==
  /\ pc = "append" /\ reuploads
  /\ Transfer(Content(remote), uploadedLen)
  /\ blind' = (blind \/ uploadedLen # Len(remote))
  /\ c' = c + 1 /\ pc' = "attempt"
  /\ UNCHANGED <<uploadedLen, downloadVars, result, crashes, reuploads>>

\* The handle downloads the remote file: discardFunc takes what comes.
RetryDownloads ==
  /\ pc = "append" /\ ~reuploads
  /\ ret' \in {"ok", "fail"}
  /\ c' = c + 1 /\ pc' = "attempt"
  /\ UNCHANGED <<remote, uploadedLen, ferr, fresh, blind, downloadVars, result, crashes, reuploads>>

EndUpload ==
  /\ pc = "attempt" /\ ~TryAgain
  /\ Return("upload", ret) /\ pc' = "download"
  /\ UNCHANGED <<uploadVars, downloadVars, crashes, reuploads>>

-----------------------------------------------------------------------------
(* FtpDownload                                                             *)

DownloadNoFile ==
  /\ pc = "download"
  /\ Return("download", "fail") /\ pc' = "done"
  /\ UNCHANGED <<uploadVars, downloadVars, crashes, reuploads>>

\* stat, fopen "ab+" (which creates the file), RESUME_FROM_LARGE: the length
\* found, or 0.
ResumeFrom == Len(Content(local))
\* Mutant: every download starts from the first block.
ResumeFromStart == 0
ResumePosition == ResumeFrom

StartDownload ==
  /\ pc = "download"
  /\ received' = ResumePosition
  /\ local' = Content(local) /\ buffer' = <<>>
  /\ pc' = "receive"
  /\ UNCHANGED <<uploadVars, ours, result, crashes, reuploads>>

Receive ==
  /\ pc = "receive" /\ received < Length
  /\ buffer' = Append(buffer, Source[received + 1])
  /\ received' = received + 1
  /\ UNCHANGED <<pc, uploadVars, local, ours, result, crashes, reuploads>>

\* The C library writes its buffer out when it likes.
WriteBuffer ==
  /\ pc = "receive" /\ buffer # <<>>
  /\ local' = local \o buffer /\ buffer' = <<>>
  /\ UNCHANGED <<pc, uploadVars, received, ours, result, crashes, reuploads>>

\* The transfer ends: well when nothing is left to receive (a position past
\* the end cannot be resumed), otherwise with an error.  fclose writes the
\* buffer out.
EndDownload ==
  /\ pc = "receive"
  /\ \/ received = Length /\ Return("download", "ok")
     \/ Return("download", "fail")
  /\ local' = local \o buffer /\ buffer' = <<>>
  /\ pc' = "done"
  /\ UNCHANGED <<uploadVars, received, ours, crashes, reuploads>>

\* The process dies and main is run again: the files survive, and what
\* the C library had buffered does not.
Crash ==
  /\ crashes < MaxCrashes
  /\ crashes' = crashes + 1
  /\ pc' = "upload" /\ buffer' = <<>>
  /\ result' = [upload |-> "none", download |-> "none"]
  /\ UNCHANGED <<uploadVars, local, received, ours, reuploads>>

Done == pc = "done" /\ crashes = MaxCrashes /\ UNCHANGED vars

Next ==
  \/ UploadNoFile \/ StartUpload \/ Store \/ ProbeFails \/ Probe
  \/ AppendRest \/ RetryDownloads \/ EndUpload
  \/ DownloadNoFile \/ StartDownload \/ Receive \/ WriteBuffer \/ EndDownload
  \/ Crash \/ Done

Spec == Init /\ [][Next]_vars

-----------------------------------------------------------------------------
(* Properties                                                              *)

\* Over all attempts of a call, a remote file that the call created or
\* truncated is a prefix of the source: no attempt skips or repeats a block,
\* unless it resumes at a length the server did not report.  It is the whole
\* source when the call succeeds, unless a read of the source has failed or
\* the attempt that succeeded did not upload.
ResumeInPlace ==
  (pc \in {"attempt", "append"} \/ result.upload = "ok") /\ fresh /\ ~blind =>
    /\ IsPrefix(Content(remote), Source)
    /\ result.upload = "ok" /\ ~ferr /\ (reuploads \/ c <= 1) => remote = Source

\* A file that only FtpDownload has written is, over runs, errors and
\* crashes, a prefix of the remote one, and all of it after a success.
DownloadInPlace ==
  ours =>
    /\ IsPrefix(Content(local) \o buffer, Source)
    /\ result.download = "ok" => local = Source

\* curlDemo.cpp:72, "do upload, will overwrite existing file": nothing of it
\* is left after a success.
UploadOverwrites ==
  result.upload = "ok" => \A i \in 1..Len(Content(remote)) : Content(remote)[i] # Old

=============================================================================

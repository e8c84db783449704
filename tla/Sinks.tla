-------------------------------- MODULE Sinks --------------------------------
(***************************************************************************)
(* The output sinks of dt_printf.c: dtrace_sprintf, dtrace_system and      *)
(* dtrace_freopen, called by the consumer on one thread, one call at a     *)
(* time.  Each call is one atomic step, with one disjunct per way out of   *)
(* the function.                                                           *)
(*                                                                         *)
(* The data is abstracted to what the sinks tell apart: the text sprintf  *)
(* formats is a path, the restore marker of freopen(""), or a command;    *)
(* a file descriptor is the file it refers to; dt_sprintf_buf is NULL, a  *)
(* live block, or a pointer to a block already freed.  The format engine  *)
(* itself (PrintfPlan) is abstracted to its outcome.                      *)
(***************************************************************************)
EXTENDS Naturals

CONSTANTS
    Paths,          \* the files a freopen(path) may name
    Orig,           \* the file stdout refers to when the consumer starts
    Closed,         \* a FILE that freopen closed and failed to reopen
    None,           \* dt_stdout_fd == -1, and a NULL dt_freopen_filename
    Restore,        \* the text DT_FREOPEN_RESTORE that freopen("") formats
    Cmd,            \* the text of a system() command
    DevFd,          \* the name "/dev/fd/<dt_stdout_fd>"
    MaxCalls,       \* how many sink calls the consumer makes
    FormatMayFail   \* whether dt_printf_format may return -1

Files == {Orig} \cup Paths

VARIABLES
    buf,        \* dt_sprintf_buf: "null", "live" or "dangling"
    text,       \* the text in the live buffer
    heap,       \* "ok", or "corrupt" once a block was freed twice
    fpfile,     \* the file the consumer's FILE *fp writes to
    stdoutfd,   \* the file dt_stdout_fd refers to, or None
    fname,      \* dt_freopen_filename: a path, DevFd, or None
    ret,        \* the result of the last call: "ok" or "err"
    calls       \* the calls made so far

vars == <<buf, text, heap, fpfile, stdoutfd, fname, ret, calls>>

freopenVars == <<fpfile, stdoutfd, fname>>

Init ==
    /\ buf = "null" /\ text = Cmd /\ heap = "ok"
    /\ fpfile = Orig /\ stdoutfd = None /\ fname = None
    /\ ret = "ok" /\ calls = 0

(* Every call: the consumer still has a stream (a FILE freopen closed is  *)
(* never used again: any use of it is undefined), and a call is left.    *)
CallGuard ==
    /\ fpfile # Closed
    /\ calls < MaxCalls
    /\ calls' = calls + 1

(* The free(dt_sprintf_buf) at the top of dtrace_sprintf: freeing a block *)
(* that was already freed is undefined behaviour, which glibc reports and *)
(* aborts on or lets pass; either way the heap is corrupt.                *)
FreeBuf == heap' = IF buf = "dangling" THEN "corrupt" ELSE heap

(* dtrace_sprintf with a format that yields text t: free the old buffer,  *)
(* malloc(strsize) (may fail: EDT_NOMEM), format into it, and free the    *)
(* buffer again if the format failed -- but leave dt_sprintf_buf pointing *)
(* at it.  ok says whether the call returns a count (TRUE) or -1 (FALSE). *)
(* dt_sprintf_buflen is nonzero only while the format runs, inside this   *)
(* one step, so its assertion holds and it is not a variable.             *)
SprintfNoMem ==
    /\ FreeBuf /\ buf' = "null" /\ UNCHANGED text

SprintfFormatFail ==
    /\ FormatMayFail
    /\ FreeBuf /\ buf' = "dangling" /\ UNCHANGED text

SprintfOk(t) ==
    /\ FreeBuf /\ buf' = "live" /\ text' = t

Sprintf(t, ok) ==
    IF ok THEN SprintfOk(t) ELSE SprintfNoMem \/ SprintfFormatFail

(* The sprintf() action. *)
SprintfCall ==
    /\ CallGuard
    /\ \E ok \in BOOLEAN :
          /\ Sprintf(Cmd, ok)
          /\ ret' = IF ok THEN "ok" ELSE "err"
    /\ UNCHANGED freopenVars

(* dtrace_system: sprintf the command, fflush(fp), system(); a failed      *)
(* system() returns -1 with errno.                                         *)
SystemCall ==
    /\ CallGuard
    /\ \E ok \in BOOLEAN :
          /\ Sprintf(Cmd, ok)
          /\ ret' \in IF ok THEN {"ok", "err"} ELSE {"err"}
    /\ UNCHANGED freopenVars

\* Mutant: the restore marker is opened as if it were a path.
TargetNoRestore(t) == t

(* The file a freopen opens: the path formatted, or on restore the file   *)
(* dt_stdout_fd refers to, reached through /dev/fd/<fd>.                  *)
Target(t) == IF t = Restore THEN stdoutfd ELSE t

(* The name dtrace_freopen gives dt_freopen_filename for text t. *)
FreopenName(t) == IF t = Restore THEN DevFd ELSE t

(* The ways out of dtrace_freopen after a successful sprintf of t. *)
FreopenNoFp ==
    \* fp == NULL: nothing to redirect
    /\ ret' = "ok"
    /\ UNCHANGED freopenVars

FreopenNoStash ==
    \* freopen("") when freopen never stashed stdout: a no-op
    /\ stdoutfd = None
    /\ ret' = "ok"
    /\ UNCHANGED freopenVars

FreopenOpenFail(t) ==
    \* fopen(dt_freopen_filename, "ace") fails: dt_handle_liberr decides
    \* whether the call fails; the stream is untouched
    /\ fname' = FreopenName(t)
    /\ ret' \in {"ok", "err"}
    /\ UNCHANGED <<fpfile, stdoutfd>>

FreopenDupFail(t) ==
    \* the first redirection stashes dup(fileno(fp)), which fails
    /\ stdoutfd = None
    /\ fname' = FreopenName(t)
    /\ ret' = "err"
    /\ UNCHANGED <<fpfile, stdoutfd>>

\* Mutant: dup(fileno(fp)) is stashed on every redirection.
FreopenRebindAlwaysDup(t, ok) ==
    /\ fname' = FreopenName(t)
    /\ stdoutfd' = fpfile
    /\ fpfile' = IF ok THEN Target(t) ELSE Closed
    /\ ret' = IF ok THEN "ok" ELSE "err"

FreopenRebind(t, ok) ==
    \* stash stdout on the first redirection, then freopen("/dev/fd/<nfp>",
    \* "aF", fp), which closes fp first: a failure destroys the stream
    /\ fname' = FreopenName(t)
    /\ stdoutfd' = IF stdoutfd = None THEN fpfile ELSE stdoutfd
    /\ fpfile' = IF ok THEN Target(t) ELSE Closed
    /\ ret' = IF ok THEN "ok" ELSE "err"

(* The freopen() action: the text is a path, or the restore marker. *)
FreopenCall ==
    /\ CallGuard
    /\ \E t \in Paths \cup {Restore} :
          \/ Sprintf(t, FALSE) /\ ret' = "err" /\ UNCHANGED freopenVars
          \/ /\ Sprintf(t, TRUE)
             /\ \/ FreopenNoFp
                \/ t = Restore /\ FreopenNoStash
                \/ /\ t # Restore \/ stdoutfd # None
                   /\ \/ FreopenOpenFail(t)
                      \/ FreopenDupFail(t)
                      \/ \E ok \in BOOLEAN : FreopenRebind(t, ok)

Next == SprintfCall \/ SystemCall \/ FreopenCall

Spec == Init /\ [][Next]_vars

-----------------------------------------------------------------------------

TypeOK ==
    /\ buf \in {"null", "live", "dangling"}
    /\ text \in Paths \cup {Restore, Cmd}
    /\ heap \in {"ok", "corrupt"}
    /\ fpfile \in Files \cup {Closed}
    /\ stdoutfd \in Files \cup {None}
    /\ fname \in Paths \cup {DevFd, None}
    /\ ret \in {"ok", "err"}
    /\ calls \in 0..MaxCalls

(* The stream as freopen() promises it: it is where the last successful   *)
(* redirection sent it, and freopen("") brings back the very stdout the    *)
(* consumer started with, after any number of redirections, failed opens  *)
(* and failed dups.  Any redirection or restore may lose the stream, when  *)
(* its own rebinding of the stream fails, and a lost stream stays lost.   *)
(* This is about the dup(fileno(fp)) stash that dtrace_freopen takes only  *)
(* on its first redirection.                                               *)
Abs == INSTANCE SinkRedirect WITH
           sink <- fpfile, saved <- stdoutfd # None, asked <- text,
           Lost <- Closed, Other <- Cmd

SinkRefinement == Abs!Spec

(* dtrace_sprintf never frees dt_sprintf_buf twice: the free at its top    *)
(* must not meet the block it freed when an earlier format failed.         *)
SprintfBufFreedOnce == heap = "ok"

=============================================================================

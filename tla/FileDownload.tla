---------------------------- MODULE FileDownload ----------------------------
(***************************************************************************)
(* One download seen from the proxy: NewFileDownloadHandler starts a       *)
(* goroutine that reads the upstream response, has it inspected and then   *)
(* feeds a pipe, while the handler itself waits for the outcome for a      *)
(* limited time (bgTimeout).  When that time is over the client gets the   *)
(* response headers at once and reads the body from the pipe, and the      *)
(* download goes on in background.                                         *)
(*                                                                         *)
(* The dispatcher and the inspection are part of the environment here;     *)
(* FetchService has what they do.                                          *)
(***************************************************************************)
EXTENDS Naturals

CONSTANTS
  Blocks,    \* size of the content, in units of io.Copy
  PipeSize   \* what the pipe holds before a write blocks, in the same units

ASSUME BlocksAssumption == Blocks \in Nat \ {0} /\ PipeSize \in Nat \ {0}

VARIABLES
  goroutine,   \* where the download goroutine is
  handler,     \* where NewFileDownloadHandler and then processResponse are
  dch,         \* the channel between them, whose capacity is one
  bgDownload,  \* the flag that tells the goroutine of the switch
  rch,         \* the reply channel of the inspection, whose capacity is one
  reader,      \* pr is open
  writer,      \* pw is open
  piped,       \* blocks written to the pipe
  read,        \* blocks the client read
  client,      \* what the client knows
  copyError,   \* io.Copy to the pipe failed, which is only logged
  temp         \* where the temporary file is

downloadVars ==
  <<goroutine, handler, dch, bgDownload, rch, reader, writer, piped, read, client, copyError, temp>>

Outcomes == {"ok", "rejected", "error"}

\* "download", "wait" and "open" are the three things that can fail; every
\* error path reports "rejected" or "error" first and goes to "check" then.
GoroutineStates == {"download", "wait", "open", "pipe", "rejected", "error", "check", "over"}

\* The variables of the model range over the values the program gives them.
DownloadTypeOK ==
  /\ goroutine \in GoroutineStates
  /\ handler \in {"select", "timeout", "failed", "serving"}
  /\ dch \in Outcomes \cup {"empty"}
  /\ bgDownload \in BOOLEAN
  /\ rch \in Outcomes \cup {"empty", "none"}
  /\ reader \in BOOLEAN
  /\ writer \in BOOLEAN
  /\ piped \in 0 .. Blocks
  /\ read \in 0 .. Blocks
  /\ client \in {"waiting", "403", "500", "body", "eof", "broken", "gone"}
  /\ copyError \in BOOLEAN
  /\ temp \in {"there", "spool", "removed"}

\* The goroutine is started with the pipe open, or NewFileDownloadHandler
\* returned an error before that and processResponse replied with it.
DownloadInit ==
  /\ \/ /\ goroutine = "download" /\ handler = "select" /\ client = "waiting"
        /\ reader = TRUE /\ writer = TRUE /\ temp = "there"
     \/ /\ goroutine = "over" /\ handler = "failed" /\ client = "500"
        /\ reader = FALSE /\ writer = FALSE /\ temp = "removed"
  /\ dch = "empty"
  /\ bgDownload = FALSE
  /\ rch = "none"
  /\ piped = 0
  /\ read = 0
  /\ copyError = FALSE

-----------------------------------------------------------------------------
(* The download goroutine                                                  *)

\* localDownload; on success the response is sent for inspection, as soon as
\* the dispatcher receives it.
LocalDownload ==
  /\ goroutine = "download"
  /\ \/ goroutine' = "error" /\ UNCHANGED rch
     \/ goroutine' = "wait" /\ rch' = "empty"
  /\ UNCHANGED <<handler, dch, bgDownload, reader, writer, piped, read, client, copyError, temp>>

\* The service takes the temporary file and replies, sooner or later.  It moves
\* the file to the spool, or removes it: there is no session, the content is in
\* the spool already or has a verdict that is used again, or saving fails.
Inspection ==
  /\ rch = "empty"
  /\ rch' \in Outcomes
  /\ temp' \in {"spool", "removed"}
  /\ UNCHANGED <<goroutine, handler, dch, bgDownload, reader, writer, piped, read, client, copyError>>

\* A bug: the goroutine only waits for the reply, whatever it says.
ReceiveReplyAny ==
  /\ goroutine = "wait"
  /\ rch \in Outcomes
  /\ goroutine' = "open"
  /\ UNCHANGED <<handler, dch, bgDownload, rch, reader, writer, piped, read, client, copyError, temp>>

ReceiveReply ==
  /\ goroutine = "wait"
  /\ rch \in Outcomes
  /\ goroutine' = IF rch = "ok" THEN "open" ELSE rch
  /\ UNCHANGED <<handler, dch, bgDownload, rch, reader, writer, piped, read, client, copyError, temp>>

\* The timeout of the inspection, also when the reply is just arriving.
InspectionTimeout ==
  /\ goroutine = "wait"
  /\ goroutine' = "error"
  /\ UNCHANGED <<handler, dch, bgDownload, rch, reader, writer, piped, read, client, copyError, temp>>

\* Success is reported when the asset file is open; the file may be gone.
OpenAsset ==
  /\ goroutine = "open"
  /\ \/ goroutine' = "error" /\ UNCHANGED dch
     \/ dch = "empty" /\ dch' = "ok" /\ goroutine' = "pipe"
  /\ UNCHANGED <<handler, bgDownload, rch, reader, writer, piped, read, client, copyError, temp>>

\* io.Copy to the pipe. A write waits while the pipe is full and fails when the
\* reading side is closed; reading the asset file may fail at any time. However
\* io.Copy ends, the deferred calls close the writing side.
PipeAsset ==
  /\ goroutine = "pipe"
  /\ \/ /\ reader /\ piped < Blocks /\ piped - read < PipeSize
        /\ piped' = piped + 1
        /\ UNCHANGED <<goroutine, writer, copyError>>
     \/ /\ \/ piped = Blocks /\ UNCHANGED copyError
           \/ piped < Blocks /\ copyError' = TRUE
        /\ goroutine' = "over"
        /\ writer' = FALSE
        /\ UNCHANGED piped
  /\ UNCHANGED <<handler, dch, bgDownload, rch, reader, read, client, temp>>

\* A bug: the channel to the handler has no buffer, so reporting waits for
\* the handler to receive.
ReportErrorUnbuffered ==
  /\ goroutine \in {"rejected", "error"}
  /\ dch = "empty"
  /\ handler = "select"
  /\ dch' = goroutine
  /\ goroutine' = "check"
  /\ UNCHANGED <<handler, bgDownload, rch, reader, writer, piped, read, client, copyError, temp>>

\* Every error path sends the error to the handler ...
ReportError ==
  /\ goroutine \in {"rejected", "error"}
  /\ dch = "empty"
  /\ dch' = goroutine
  /\ goroutine' = "check"
  /\ UNCHANGED <<handler, bgDownload, rch, reader, writer, piped, read, client, copyError, temp>>

\* ... and then closes the reading side if it believes to be in background.
CheckBackground ==
  /\ goroutine = "check"
  /\ goroutine' = "over"
  /\ reader' = (reader /\ ~bgDownload)
  /\ writer' = FALSE
  /\ UNCHANGED <<handler, dch, bgDownload, rch, piped, read, client, copyError, temp>>

-----------------------------------------------------------------------------
(* NewFileDownloadHandler and processResponse                              *)

\* A bug: an inspection that failed for any reason is no reason to fail.
ReceiveOutcomeLenient ==
  /\ handler = "select"
  /\ dch # "empty"
  /\ dch' = "empty"
  /\ IF dch = "rejected"
       THEN handler' = "failed" /\ client' = "403" /\ temp' = "removed"
       ELSE handler' = "serving" /\ client' = "body" /\ UNCHANGED temp
  /\ UNCHANGED <<goroutine, bgDownload, rch, reader, writer, piped, read, copyError>>

\* The outcome arrived in time. On failure processResponse removes the
\* temporary file and replies with an error.
ReceiveOutcome ==
  /\ handler = "select"
  /\ dch # "empty"
  /\ dch' = "empty"
  /\ IF dch = "ok"
       THEN handler' = "serving" /\ client' = "body" /\ UNCHANGED temp
       ELSE /\ handler' = "failed"
            /\ client' = IF dch = "rejected" THEN "403" ELSE "500"
            /\ temp' = IF temp = "there" THEN "removed" ELSE temp
  /\ UNCHANGED <<goroutine, bgDownload, rch, reader, writer, piped, read, copyError>>

\* A bug: the time starts to run when the download is complete.
BgTimeoutLate ==
  /\ handler = "select"
  /\ goroutine # "download"
  /\ handler' = "timeout"
  /\ UNCHANGED <<goroutine, dch, bgDownload, rch, reader, writer, piped, read, client, copyError, temp>>

\* bgTimeout is over, also when the outcome is just arriving.
BgTimeout ==
  /\ handler = "select"
  /\ handler' = "timeout"
  /\ UNCHANGED <<goroutine, dch, bgDownload, rch, reader, writer, piped, read, client, copyError, temp>>

\* The flag is set after the decision; the client gets its 200 OK.
SwitchToBackground ==
  /\ handler = "timeout"
  /\ bgDownload' = TRUE
  /\ handler' = "serving"
  /\ client' = "body"
  /\ UNCHANGED <<goroutine, dch, rch, reader, writer, piped, read, copyError, temp>>

-----------------------------------------------------------------------------
(* The client, through the proxy                                           *)

Read ==
  /\ client = "body"
  /\ \/ /\ reader /\ read < piped
        /\ read' = read + 1
        /\ UNCHANGED <<client, reader>>
     \/ /\ reader /\ read = piped /\ ~writer
        /\ client' = "eof"
        /\ reader' = FALSE
        /\ UNCHANGED read
     \/ /\ ~reader
        /\ client' = "broken"
        /\ UNCHANGED <<read, reader>>
  /\ UNCHANGED <<goroutine, handler, dch, bgDownload, rch, writer, piped, copyError, temp>>

\* The client goes away and the proxy closes the body.
Disconnect ==
  /\ client = "body"
  /\ client' = "gone"
  /\ reader' = FALSE
  /\ UNCHANGED <<goroutine, handler, dch, bgDownload, rch, writer, piped, read, copyError, temp>>

-----------------------------------------------------------------------------

\* What the goroutine does when the upstream server has sent everything.
Goroutine ==
  \/ ReceiveReply
  \/ OpenAsset
  \/ PipeAsset
  \/ ReportError
  \/ CheckBackground

Handler == ReceiveOutcome \/ SwitchToBackground

DownloadNext ==
  \/ LocalDownload
  \/ Goroutine
  \/ Handler
  \/ Inspection
  \/ InspectionTimeout
  \/ BgTimeout
  \/ Read
  \/ Disconnect

DownloadSpec == DownloadInit /\ [][DownloadNext]_downloadVars

(***************************************************************************)
(* The runtime runs the goroutine and the handler whenever they can run,   *)
(* and both timeouts expire.  A connected client reads on or disconnects.  *)
(* Whether the upstream server ever ends its response and the dispatcher   *)
(* receives the message, for which the code sets no limit, and whether the *)
(* inspection ever replies is left open.                                   *)
(***************************************************************************)
FairSpec ==
  /\ DownloadSpec
  /\ WF_downloadVars(Goroutine)
  /\ WF_downloadVars(Handler)
  /\ WF_downloadVars(InspectionTimeout)
  /\ WF_downloadVars(BgTimeout)
  /\ WF_downloadVars(Read)
-----------------------------------------------------------------------------
(* Correctness                                                             *)

\* A body that ends is the approved content, all of it, with two exceptions: it
\* is empty if the download was switched to background and then refused, and it
\* is a part of the approved content if io.Copy failed.
WholeContent ==
  client = "eof" =>
    \/ rch = "ok" /\ (read = Blocks \/ copyError)
    \/ bgDownload /\ read = 0

\* No byte reaches the pipe before the inspection replied that the content is
\* good, and an error response means that none ever will.
NothingEarly ==
  /\ piped > 0 => rch = "ok"
  /\ client \in {"403", "500"} => piped = 0 /\ goroutine \in {"check", "over"}

\* Content that was refused in background closes the reader, so the client
\* cannot take what it got for the whole content.
RefusedInBackground ==
  client = "eof" /\ bgDownload => rch = "ok" /\ read = Blocks

\* Every client gets an answer, even if the upstream server never ends its
\* response or the inspection never replies: bgTimeout sees to it.
ClientAnswered == <>(client # "waiting")

\* The goroutine does not outlive a download that ends: no send on dch, no wait
\* for the inspection and no write to a full pipe holds it up for ever, as long
\* as a client that gets the body reads on or disconnects.
GoroutineEnds == goroutine # "download" ~> goroutine = "over"
=============================================================================

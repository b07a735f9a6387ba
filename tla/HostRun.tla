------------------------------- MODULE HostRun -------------------------------
(***************************************************************************)
(* What each command of the front end makes of one run of its guest: the   *)
(* run loop harvests the guest's result and the refusals the decoder       *)
(* captures, and when it is left the command picks its error, or success,  *)
(* in an order of its own.                                                 *)
(***************************************************************************)
EXTENDS Session

CONSTANTS Commands   \* the commands whose runs are looked at

VARIABLES
    command,  \* the command
    said,     \* what the guest put in its result
    reply,    \* what the host harvested from it
    shown,    \* the host has printed the result
    pipe      \* broken_pipe: the reader of standard output is gone

hostVars == <<command, said, reply, shown, pipe>>

(***************************************************************************)
(* The guests.  Reports are the extents or entries of a streaming command, *)
(* bench's start marker, and refusals; what a guest answers after it has   *)
(* refused an image is never a success, but for check, whose result has no *)
(* field for it.                                                           *)
(***************************************************************************)
Refusals == {"differencing", "l2 entry"}

ASSUME HostAssumption ==
    /\ Refusals \cup {"start", "progress"} \subseteq Reports
    /\ Reports \cap {"result", "complete", "panic", "exception"} = {}
    /\ Commands \subseteq {"probe", "bench", "resize", "amend", "bitmap", "rebase", "commit",
                           "create", "info", "copy", "check", "compare", "convert",
                           "measure", "map", "list", "snapshot"}

Readers == {"bench", "rebase", "compare", "convert"}
RefusalsOf(c) ==
    {m \in Refusals : \/ c \in Readers \cup {"measure"}
                      \/ c = "check" /\ m = "differencing"
                      \/ c = "map" /\ m = "l2 entry"}
Streams == {"map", "list"}
ReportsOf(c) ==
    RefusalsOf(c) \cup (IF c = "bench" THEN {"start"} ELSE Reports \ (Refusals \cup {"start"}))
Whole(m) == m \in {sent[k] : k \in DOMAIN sent}
Refused == \E m \in Refusals : Whole(m)
Answers(c) ==
    CASE c = "check" -> IF Refused THEN {"ok"} ELSE {"ok", "leaks", "errors", "unsupported"}
      [] c = "bench" /\ ~Whole("start") -> {"error"}
      [] c \in {"info", "probe", "copy"} -> {"ok"}
      [] OTHER -> IF Refused THEN {"error"} ELSE {"ok", "error"}

(***************************************************************************)
(* A verdict is the first rule that holds.                                 *)
(***************************************************************************)
FirstOf(rules) ==
    LET hit == {i \in DOMAIN rules : rules[i][1]}
    IN  rules[CHOOSE i \in hit : \A j \in hit : i <= j][2]
Heard(m) == m \in {heard[k] : k \in DOMAIN heard}
Before(m, n) == \E i, j \in DOMAIN heard : i < j /\ heard[i] = m /\ heard[j] = n

VmError == <<guest = "shutdown", "vm error">>
Differencing == <<Heard("differencing"), "differencing">>
L2Entry == <<Heard("l2 entry"), "l2 entry">>
NoAnswer == <<~Heard("result"), "no result">>
\* no_result_error names the exception the decoder captured.
Struck == <<~Heard("result") /\ Heard("exception"), "cpu exception">>
GuestError == <<reply = "error", "guest error">>
Success == <<TRUE, "ok">>

ProbeVerdict == FirstOf(<<VmError, NoAnswer, Success>>)
BenchVerdict ==
    FirstOf(<<VmError, Differencing, L2Entry, Struck, NoAnswer, GuestError,
              <<~Before("start", "result"), "no start">>, Success>>)
ResizeVerdict == FirstOf(<<VmError, Struck, NoAnswer, GuestError, Success>>)
AmendVerdict == FirstOf(<<VmError, Struck, NoAnswer, GuestError, Success>>)
BitmapVerdict == FirstOf(<<VmError, Struck, NoAnswer, GuestError, Success>>)
RebaseVerdict ==
    FirstOf(<<VmError, Differencing, L2Entry, Struck, NoAnswer, GuestError, Success>>)
CommitVerdict == FirstOf(<<VmError, Struck, NoAnswer, GuestError, Success>>)
CreateVerdict == FirstOf(<<VmError, Struck, NoAnswer, GuestError, Success>>)
\* info prints the result when it comes and does not ask whether it came; copy
\* looks at no message.
InfoVerdict == FirstOf(<<VmError, Success>>)
CopyVerdict == FirstOf(<<VmError, Success>>)
\* Mutant of CheckVerdict: the refusal is not asked for.
CheckVerdictUnrefused ==
    FirstOf(<<VmError, NoAnswer, <<reply = "unsupported", "unsupported">>,
              <<reply = "errors", "errors">>, <<reply = "leaks", "leaks">>, Success>>)
CheckVerdict ==
    FirstOf(<<VmError, Differencing, NoAnswer, <<reply = "unsupported", "unsupported">>,
              <<reply = "errors", "errors">>, <<reply = "leaks", "leaks">>, Success>>)
CompareVerdict ==
    FirstOf(<<VmError, Differencing, L2Entry, NoAnswer, <<reply = "error", "differs">>, Success>>)
\* A convert has failed when the guest says so, and is asked why only then.
ConvertVerdict ==
    IF guest # "shutdown" /\ reply # "error" THEN "ok"
    ELSE FirstOf(<<VmError, Differencing, L2Entry, GuestError>>)
MeasureVerdict ==
    FirstOf(<<VmError, Differencing, L2Entry, Struck, NoAnswer, GuestError, Success>>)
MapVerdict ==
    FirstOf(<<VmError, <<pipe, "ok">>, L2Entry, NoAnswer, GuestError, Success>>)
ListVerdict == FirstOf(<<VmError, <<pipe, "ok">>, NoAnswer, GuestError, Success>>)
SnapshotVerdict == FirstOf(<<VmError, NoAnswer, GuestError, Success>>)

Verdict(c) ==
    CASE c = "probe" -> ProbeVerdict
      [] c = "bench" -> BenchVerdict
      [] c = "resize" -> ResizeVerdict
      [] c = "amend" -> AmendVerdict
      [] c = "bitmap" -> BitmapVerdict
      [] c = "rebase" -> RebaseVerdict
      [] c = "commit" -> CommitVerdict
      [] c = "create" -> CreateVerdict
      [] c = "info" -> InfoVerdict
      [] c = "copy" -> CopyVerdict
      [] c = "check" -> CheckVerdict
      [] c = "compare" -> CompareVerdict
      [] c = "convert" -> ConvertVerdict
      [] c = "measure" -> MeasureVerdict
      [] c = "map" -> MapVerdict
      [] c = "list" -> ListVerdict
      [] c = "snapshot" -> SnapshotVerdict

ExitCode(v) ==
    CASE v = "ok" -> 0 [] v = "errors" -> 2 [] v = "leaks" -> 3 [] v = "unsupported" -> 63
      [] OTHER -> 1

(***************************************************************************)
(* The run.                                                                *)
(***************************************************************************)
HostInit ==
    /\ Init
    /\ command \in Commands
    /\ said = None /\ reply = None /\ shown = FALSE /\ pipe = FALSE

\* The result is the last thing an operation sends.
HostReport ==
    /\ ~Whole("result")
    /\ \E m \in ReportsOf(command) : Report(m)
    /\ UNCHANGED hostVars
HostAnswer ==
    /\ Answer
    /\ said' \in Answers(command)
    /\ UNCHANGED <<command, reply, shown, pipe>>

\* The result is harvested, and where it is printed at once, not after a
\* refusal.  What a garbled result says is anything.
Prints == {"info", "check", "compare", "measure"}
Arrives(m) == Len(heard') > Len(heard) /\ heard'[Len(heard')] = m
HostByte ==
    /\ SendByte
    /\ reply' \in IF ~Arrives("result") THEN {reply}
                  ELSE IF cut THEN {"ok", "error", "leaks", "errors", "unsupported"}
                  ELSE {said}
    /\ shown' = (shown \/ (Arrives("result") /\ command \in Prints
                             /\ \A m \in RefusalsOf(command) : ~Heard(m)))
    /\ pipe' \in IF command \in Streams /\ Arrives("progress") THEN {pipe, TRUE} ELSE {pipe}
    /\ UNCHANGED <<command, said>>

HostEnd ==
    /\ End
    /\ verdict' = Verdict(command)
    /\ UNCHANGED hostVars

GuestStep == Install \/ Complete \/ Panic \/ Exception \/ TripleFault \/ VmFails
HostNext ==
    \/ GuestStep /\ UNCHANGED hostVars
    \/ HostReport \/ HostAnswer \/ HostByte \/ HostEnd

HostSpec == HostInit /\ [][HostNext]_<<vars, hostVars>>

(***************************************************************************)
(* A run struck between messages ends as what was sent whole says:         *)
(*  - a failed machine is never a success;                                 *)
(*  - a command that waits for a result succeeds exactly on a result that  *)
(*    came and says success, with nothing refused (a streaming one also    *)
(*    when its reader has gone), and check's codes tell the findings apart;*)
(*  - a convert is no success once the guest has said it failed;           *)
(*  - a refusal the guest sent is what the user is told, and no result is  *)
(*    printed beside it;                                                   *)
(*  - the exception report of a run without a result is named where the    *)
(*    command asks for it.                                                 *)
(***************************************************************************)
Unasking == {"info", "copy", "convert"}
Naming == {"bench", "resize", "amend", "bitmap", "rebase", "commit", "create", "measure"}
Explained ==
    verdict # None /\ ~cut =>
      LET ended == guest = "halted"
          good == Whole("result") /\ said = "ok" /\ ~Refused
          asked == command \notin Unasking \/ (command = "convert" /\ said = "error"
                                                 /\ Whole("result"))
      IN /\ ExitCode(verdict) = 0 => ended
         /\ ended /\ ~pipe /\ command \notin Unasking => (ExitCode(verdict) = 0 <=> good)
         /\ ended /\ good => ExitCode(verdict) = 0
         /\ command = "convert" /\ Whole("result") /\ said = "error" => ExitCode(verdict) = 1
         /\ command = "check" /\ ended /\ Whole("result") /\ ~Refused =>
              (said # "ok" => verdict = said)
         /\ ended /\ asked /\ ~pipe /\ Refused =>
              \E m \in Refusals : Whole(m) /\ verdict = m
         /\ verdict \in Refusals => ~shown
         /\ ended /\ command \in Naming /\ Whole("exception") /\ ~Whole("result") /\ ~Refused =>
              verdict = "cpu exception"
=============================================================================

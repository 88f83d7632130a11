-------------------------- MODULE ClientLibraries --------------------------
(***************************************************************************)
(* The decisions of each client library, as profiles of module Client.     *)
(* Blocking wrappers around an asynchronous library share its profile.     *)
(***************************************************************************)

\* What most libraries do: a table keyed by message id, a thread or task that
\* reads, callers that remove their own entry however the call ends, a timeout of
\* ten seconds, the first of answer and end reported.
Common ==
    [slots |-> 0, takes |-> FALSE, cleans |-> TRUE, clears |-> FALSE, keeps |-> FALSE,
     refuses |-> FALSE, threads |-> TRUE, write |-> "blocks", timer |-> "returns", both |-> "answer",
     lost |-> "closed", tail |-> TRUE, callback |-> "blocks", failure |-> {},
     close |-> "ends"]

\* select over the context, the channel the reader closes, and the reply; a panic
\* in a callback ends the process
Go == [Common EXCEPT !.timer = "context", !.both = "either"]

\* _done is looked at before the result; responses are stored before the event is
\* looked up; an exception of a callback runs the reader's finally
Python == [Common EXCEPT !.keeps = TRUE, !.both = "end", !.failure = {"wakes"}]

\* as in Python, but of a callback's exceptions only Unix_error and Failure reach the
\* reader's last lines
OCaml == [Common EXCEPT !.both = "end", !.failure = {"wakes", "silent"}]

\* the reader removes the sender and sends; a call that times out or cannot write
\* returns early; close takes the client by value
Rust ==
    [Common EXCEPT !.takes = TRUE, !.cleans = FALSE, !.clears = TRUE, !.callback = "cannot",
                   !.failure = {"silent"}, !.close = "alone"]

\* one thread, a promise per call
NodeJS ==
    [Common EXCEPT !.takes = TRUE, !.clears = TRUE, !.refuses = TRUE, !.threads = FALSE,
                   !.write = "buffers", !.callback = "cannot", !.failure = {"wakes"},
                   !.close = "wakes"]

\* one thread that polls while it waits; a read that meets the end drops what it
\* read with it; a write of which nothing is taken in ten seconds fails
Lua ==
    [Common EXCEPT !.threads = FALSE, !.write = "times", !.tail = FALSE,
                   !.callback = "nests", !.failure = {"caller"}]

\* completeExceptionally for everybody, and clear, in the reader's finally,
\* behind a suspending lock that a cancelled coroutine may not get
JVM == [Common EXCEPT !.clears = TRUE, !.failure = {"wakes"}, !.close = "cancels"]

\* TrySetCanceled for everybody: outside Dispose the call reports a timeout
DotNet ==
    [Common EXCEPT !.clears = TRUE, !.lost = "timeout", !.failure = {"wakes"}, !.close = "wakes"]

\* the group of a call's two tasks waits for the one that cannot be cancelled;
\* writes, responses and the end of the connection are handled by one actor
Swift == [Common EXCEPT !.takes = TRUE, !.clears = TRUE, !.write = "stalls",
                   !.timer = "waits", !.callback = "cannot"]

\* slots; a call woken by the end finds no error and no data
Zig == [Common EXCEPT !.slots = 64, !.lost = "success", !.close = "alone"]
C == [Common EXCEPT !.slots = 64, !.lost = "success", !.close = "alone"]

AllLibraries == {Go, Python, OCaml, Rust, NodeJS, Lua, JVM, DotNet, Swift, Zig, C}
=============================================================================

------------------------------ MODULE CRequests ------------------------------
(***************************************************************************)
(* What the functions of src/clients/c/kgd.c write: each is a program of   *)
(* calls of the MessagePack writer, run here on module MpackWriter with    *)
(* any of its allocations failing, or the free caller of that module.      *)
(*                                                                         *)
(* A step of a program opens or closes a container or writes a value; a    *)
(* value has a name (a key, a method) or is "value".  The options of a     *)
(* call are the fields it writes: kgd_place leaves out those that are 0.   *)
(***************************************************************************)
EXTENDS MpackWriter

CONSTANTS
    KeySize, IntSize, BlobSize,     \* <<tag size, data size>> of strings, integers and image data
    PlaceOptions,       \* the sets of options a kgd_place is tried with
    MaxFree             \* bound on what the free caller writes, by kind of sink

\* Strings are short enough to be written with their tag, and so is any tag
ASSUME WrittenSizesAssumption == {KeySize, IntSize, BlobSize} \subseteq (1..MinBuffer) \X Nat

VARIABLES
    program,    \* the function that writes, as the sequence of its steps, or << >>
    next        \* the step it is at

requestVars == <<program, next>>
allVars == <<vars, requestVars>>

----------------------------------------------------------------------------
(* The functions of kgd.c *)

Opens(op, type, n) == <<[op |-> op, type |-> type, n |-> n, name |-> "value", size |-> <<0, 0>>]>>
Writes(name, size) == <<[op |-> "write", type |-> "value", n |-> 0, name |-> name, size |-> size]>>
Start(type, n) == Opens("start", type, n)
Finish(type) == Opens("finish", type, 0)
Build(type) == Opens("build", type, 0)
Complete(type) == Opens("complete", type, 0)
Name(s) == Writes(s, KeySize)
Number == Writes("value", IntSize)
Text == Writes("value", KeySize)

Field(name, value) == Name(name) \o value
\* A field that is left out where its option is 0
Optional(name, options) == IF name \in options THEN Field(name, Number) ELSE << >>

Request(method, params) ==
    Start("array", 4) \o Number \o Number \o Name(method) \o params \o Finish("array")
Oneway(method, params) ==
    Start("array", 3) \o Number \o Name(method) \o params \o Finish("array")
NoParams == Start("array", 0) \o Finish("array")
OneParam(map) == Start("array", 1) \o map \o Finish("array")

\* kgd_connect
Hello(session) ==
    Request("hello", OneParam(
        Build("map") \o Field("client_type", Text) \o Field("pid", Number) \o Field("label", Text)
        \o (IF session THEN Field("session_id", Text) ELSE << >>)
        \o Complete("map")))

\* kgd_upload
Upload ==
    Request("upload", OneParam(
        Start("map", 4) \o Field("data", Writes("value", BlobSize)) \o Field("format", Text)
        \o Field("width", Number) \o Field("height", Number) \o Finish("map")))

\* The anchor of kgd_place
Anchor(kind, options) ==
    Build("map") \o Field("type", Text)
    \o (CASE kind = "pane" -> (IF "pane_id" \in options THEN Field("pane_id", Text) ELSE << >>)
                              \o Optional("row", options) \o Optional("col", options)
          [] kind = "nvim_win" -> Optional("win_id", options) \o Optional("buf_line", options)
                                  \o Optional("col", options)
          [] OTHER -> Optional("row", options) \o Optional("col", options))
    \o Complete("map")

Place(kind, options) ==
    Request("place", OneParam(
        Build("map") \o Field("handle", Number) \o Field("anchor", Anchor(kind, options))
        \o Field("width", Number) \o Field("height", Number)
        \o Optional("src_x", options) \o Optional("src_y", options)
        \o Optional("src_w", options) \o Optional("src_h", options) \o Optional("z_index", options)
        \o Complete("map")))

\* send_simple_call, for kgd_unplace and kgd_free_handle
SimpleCall(method, key) ==
    Request(method, OneParam(Start("map", 1) \o Field(key, Number) \o Finish("map")))

RegisterWin(pane) ==
    Oneway("register_win", OneParam(
        Build("map") \o Field("win_id", Number)
        \o (IF pane THEN Field("pane_id", Text) ELSE << >>)
        \o Field("top", Number) \o Field("left", Number) \o Field("width", Number)
        \o Field("height", Number) \o Field("scroll_top", Number)
        \o Complete("map")))

UpdateScroll ==
    Oneway("update_scroll", OneParam(
        Start("map", 2) \o Field("win_id", Number) \o Field("scroll_top", Number) \o Finish("map")))

UnregisterWinMisnamed ==   \* mutant: a key the daemon does not decode
    Oneway("unregister_win", OneParam(Start("map", 1) \o Field("win", Number) \o Finish("map")))
UnregisterWin ==
    Oneway("unregister_win", OneParam(Start("map", 1) \o Field("win_id", Number) \o Finish("map")))

List == Request("list", NoParams)
Status == Request("status", NoParams)
UnplaceAll == Oneway("unplace_all", NoParams)
Stop == Oneway("stop", NoParams)

Programs ==
    {Hello(s) : s \in BOOLEAN} \cup {Upload, UpdateScroll, UnregisterWin, List, Status, UnplaceAll, Stop}
    \cup {Place(kind, o) : kind \in {"absolute", "pane", "nvim_win"}, o \in PlaceOptions}
    \cup {SimpleCall("unplace", "placement_id"), SimpleCall("free", "handle")}
    \cup {RegisterWin(p) : p \in BOOLEAN}

----------------------------------------------------------------------------
(* Running a program: an error does not stop the function, and no call before
   mpack_writer_destroy has an effect any more *)

InitRequest ==
    /\ Init
    /\ program \in (IF w.sink[1] = "growable" THEN Programs \cup {<< >>} ELSE {<< >>})
    /\ next = 1

Runs == program # << >> /\ next <= Len(program) /\ pc = "idle"

Step ==
    LET s == program[next] IN
    /\ Runs /\ w.error = "ok"
    /\ CASE s.op = "start" -> StartContainer(s.type, s.n)
         [] s.op = "finish" -> FinishContainer(s.type)
         [] s.op = "build" -> BuildContainer(s.type)
         [] s.op = "complete" -> CompleteNested(s.type) \/ CompleteOutermost(s.type) \/ CompleteMisused(s.type)
         [] OTHER -> WriteScalar(s.size[1], s.size[2])
    /\ next' = next + 1
    /\ UNCHANGED program

StepWithError ==
    /\ Runs /\ w.error # "ok"
    /\ next' = Len(program) + 1
    /\ UNCHANGED <<vars, program>>

DestroyRequest ==
    /\ program # << >> /\ next > Len(program)
    /\ Destroy
    /\ UNCHANGED requestVars

FreeCall ==
    /\ program = << >>
    /\ Call
    /\ Len(doc') <= MaxFree[w.sink[1]]
    /\ UNCHANGED requestVars

NextRequest ==
    \/ Step \/ StepWithError \/ DestroyRequest
    \/ FreeCall
    \/ Resolve /\ UNCHANGED requestVars

RequestSpec == InitRequest /\ [][NextRequest]_allVars

----------------------------------------------------------------------------
(* What the daemon decodes: internal/protocol/types.go and rpc/dispatch.go *)

Fields ==
    [hello |-> {"client_type", "pid", "label", "session_id"},
     upload |-> {"data", "format", "width", "height"},
     place |-> {"handle", "anchor", "width", "height", "src_x", "src_y", "src_w", "src_h", "z_index"},
     unplace |-> {"placement_id"},
     free |-> {"handle"},
     register_win |-> {"win_id", "pane_id", "top", "left", "width", "height", "scroll_top"},
     update_scroll |-> {"win_id", "scroll_top"},
     unregister_win |-> {"win_id"}]
AnchorFields == {"type", "pane_id", "win_id", "buf_line", "row", "col"}
Parameterless == {"list", "status", "stop", "unplace_all"}

\* What the steps that write an item call it, in the order of doc
Items == SelectSeq(program, LAMBDA s : s.op \in {"start", "build", "write"})
Children(p) == SelectSeq([i \in DOMAIN doc |-> i], LAMBDA i : doc[i].parent = p)
IsMapOf(i, names) ==
    LET c == Children(i) IN
    /\ doc[i].type = "map" /\ Len(c) % 2 = 0
    /\ \A k \in 1..Len(c) \div 2 : Items[c[2 * k - 1]].name \in names
    /\ \A k, l \in 1..Len(c) \div 2 :
          Items[c[2 * k - 1]].name = Items[c[2 * l - 1]].name => k = l

\* A message handed to send_all is one the daemon can dispatch: four elements or
\* three, a method it knows, and as parameters nothing where it needs nothing, or
\* one map whose keys it knows, each once, the anchor's too
Dispatchable ==
    (pc = "destroyed" /\ w.error = "ok" /\ program # << >>) =>
        LET top == Children(1)
            method == Items[top[Len(top) - 1]].name
            params == Children(top[Len(top)])
        IN  /\ Children(0) = <<1>> /\ doc[1].type = "array"
            /\ Len(top) = doc[1].n /\ doc[1].n \in {3, 4}
            /\ IF method \in Parameterless THEN params = << >>
               ELSE /\ method \in DOMAIN Fields
                    /\ Len(params) = 1 /\ IsMapOf(params[1], Fields[method])
            /\ \A i \in DOMAIN doc :
                  (i > 1 /\ Items[i].name = "anchor") => IsMapOf(i + 1, AnchorFields)

\* A release build has no tracking, so nothing but the programs themselves keeps
\* counts right: no option set makes one write more, fewer or other things than it
\* announced, and if no allocation failed the message is delivered
NeverMisuses ==
    program # << >> =>
        /\ ~misuse /\ w.error \in {"ok", "memory"}
        /\ (pc = "destroyed" /\ failing = {}) => w.error = "ok"
        /\ (pc = "destroyed" /\ w.error = "ok") => Innermost = 0

\* Every function of kgd.c writes, whatever its options and whatever fails, a message
\* the daemon can dispatch or none
Understood == Dispatchable /\ NeverMisuses
=============================================================================

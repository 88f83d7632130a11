------------------------------- MODULE Engine -------------------------------
(***************************************************************************)
(* The placement engine of kgd (internal/engine): the single goroutine     *)
(* that owns all placement state.  One action is one handler of            *)
(* Engine.handle, run to completion, with the escape sequences it sends to *)
(* the terminal applied at once.                                           *)
(*                                                                         *)
(* Engine.clientImages, a map of maps, is the partial function `images`    *)
(* from <<client, handle>> to image id.  The pixels, sizes and z-order of  *)
(* a placement never influence control and are left out.  A handler that   *)
(* answers an error or ignores its event changes nothing and is a stutter. *)
(***************************************************************************)
EXTENDS ScreenPos, UploadCache

CONSTANTS
    Clients,        \* client ids
    Anchors,        \* anchors of place requests
    Layouts,        \* pane maps the tmux watcher may report
    Shapes,         \* neovim window geometries clients may register
    Scrolls,        \* scroll positions clients may report
    Sizes,          \* terminal sizes SIGWINCH may bring
    MaxImages,      \* bound: images transmitted in a behaviour
    MaxPlacements,  \* bound: placements made in a behaviour
    MaxHandles      \* bound: handles one client holds at a time

ASSUME InputsAssumption ==
    /\ Anchors \subseteq Anchor
    /\ \A l \in Layouts : DOMAIN l \subseteq PaneIds /\ \A p \in DOMAIN l : l[p] \in Pane
    /\ Shapes \subseteq Shape
    /\ Scrolls \subseteq Int
    /\ Sizes \subseteq Size

\* The code's counters are uint32.  The bounds stand below 2^32, so that no
\* behaviour of the model wraps one (the README says what would).
ASSUME BoundsAssumption ==
    MaxImages \in Nat /\ MaxPlacements \in Nat /\ MaxHandles \in Nat

VARIABLES
    running,        \* FALSE once Run has returned
    placements,     \* placement id -> record (the live Placement structs)
    images,         \* <<client, handle>> -> kitty image id
    cache,          \* the upload cache (UploadCache.tla)
    nextImage,      \* IDAllocator.next
    nextPlacement,  \* Engine.nextPlacement
    panes,          \* pane id -> Pane
    wins,           \* window id -> Shape with the client that registered it
    termSize,       \* last size received from the TTY writer
    termImages,     \* the terminal: image ids whose data it stores
    screen,         \* the terminal: placements it displays
    told            \* placement id -> last visibility_changed sent for it

owned == <<images, cache, nextImage>>
topology == <<panes, wins, termSize>>
vars == <<running, placements, images, cache, nextImage, nextPlacement, panes,
          wins, termSize, termImages, screen, told>>

ImageIds == 1..MaxImages
PlacementIds == 1..MaxPlacements
Handles == 1..MaxHandles

Win == [client : Clients, pane : PaneIds \cup {NoPane}, top : Int, left : Int,
        height : Nat, scroll : Int]

Placement == [client : Clients, handle : Handles, img : ImageIds, anchor : Anchor,
              row : Int, col : Int, visible : BOOLEAN, rendered : BOOLEAN]

Shown == [img : ImageIds, pid : PlacementIds, row : Int, col : Int]

-----------------------------------------------------------------------------
(* The terminal, as the kitty sequences of graphics/tty.go drive it.        *)

\* Delete of the rendered placements among ps (d=i, with a placement id)
EraseNothing(scr, ps) == scr   \* mutant: the handlers forget gfx.Delete
EraseImage(scr, ps) ==         \* mutant: the sequence lacks the placement id
    {s \in scr : \A p \in ps : placements[p].rendered => s.img # placements[p].img}
Erase(scr, ps) ==
    {s \in scr : \A p \in ps : placements[p].rendered =>
                     ~(s.pid = p /\ s.img = placements[p].img)}

\* Place of the placements ps of pl.  A negative row or column serializes to
\* nothing, an image the terminal does not store is refused; a placement that
\* is already displayed is replaced.
Draw(scr, pl, ps) ==
    LET ok == {p \in ps : pl[p].row >= 0 /\ pl[p].col >= 0 /\ pl[p].img \in termImages}
    IN  {s \in scr : \A p \in ok : ~(s.pid = p /\ s.img = pl[p].img)}
          \cup {[img |-> pl[p].img, pid |-> p, row |-> pl[p].row, col |-> pl[p].col] : p \in ok}

\* Delete with free (d=I): the image's data and every display of it
FreeOnScreen(scr, imgs) == {s \in scr : s.img \notin imgs}

KeepData(stored, imgs) == stored   \* mutant: d=i instead of d=I, the data stays
FreeData(stored, imgs) == stored \ imgs

-----------------------------------------------------------------------------
Without(f, S) == [x \in DOMAIN f \ S |-> f[x]]

\* Has the position of p changed?
Moved(p, pos) == pos.row # placements[p].row \/ pos.col # placements[p].col

\* The last visibility_changed sent for p, once it is resolved to pos
HideNotice(p, pos) ==   \* mutant: only tells of placements that appear
    IF pos.visible /\ ~placements[p].visible THEN "shown" ELSE told[p]
Notice(p, pos) ==
    IF pos.visible = placements[p].visible THEN told[p]
    ELSE IF pos.visible THEN "shown" ELSE "hidden"

\* recomputePlacements, under the panes, windows and size the handler has set.
\* The placements are independent of each other, so the map order of the loop
\* does not matter.
Recompute(pn, wn, sz) ==
    LET pos == [p \in DOMAIN placements |-> Resolve(placements[p].anchor, pn, wn, sz)]
        moved == {p \in DOMAIN placements : Moved(p, pos[p])}
        erase == {p \in DOMAIN placements : ~pos[p].visible \/ p \in moved}
        draw == {p \in DOMAIN placements :
                     pos[p].visible /\ (~placements[p].rendered \/ p \in moved)}
        next == [p \in DOMAIN placements |->
                    [placements[p] EXCEPT !.row = pos[p].row, !.col = pos[p].col,
                                          !.visible = pos[p].visible,
                                          !.rendered = pos[p].visible]]
    IN  /\ placements' = next
        /\ screen' = Draw(Erase(screen, erase), next, draw)
        /\ told' = [p \in DOMAIN told |-> Notice(p, pos[p])]

FirstImage == 1

Init ==
    /\ running = TRUE
    /\ placements = << >> /\ images = << >> /\ cache = EmptyCache
    /\ nextImage = FirstImage /\ nextPlacement = 0
    /\ panes = << >> /\ wins = << >> /\ termSize = [rows |-> 0, cols |-> 0]
    /\ termImages = {} /\ screen = {} /\ told = << >>

NextPlacementId == nextPlacement + 1

\* handlePlace: a handle the client holds becomes a placement with a new id
Place(c, h, a) ==
    LET id == NextPlacementId
        pos == Resolve(a, panes, wins, termSize)
        p == [client |-> c, handle |-> h, img |-> images[<<c, h>>], anchor |-> a,
              row |-> pos.row, col |-> pos.col, visible |-> pos.visible,
              rendered |-> pos.visible]
        next == [q \in DOMAIN placements \cup {id} |-> IF q = id THEN p ELSE placements[q]]
    IN  /\ running
        /\ <<c, h>> \in DOMAIN images
        /\ nextPlacement < MaxPlacements
        /\ nextPlacement' = id
        /\ placements' = next
        /\ screen' = Draw(screen, next, {q \in {id} : pos.visible})
        /\ told' = [q \in DOMAIN told \cup {id} |-> IF q = id THEN "none" ELSE told[q]]
        /\ UNCHANGED <<running, owned, topology, termImages>>

\* The placements ps leave the map and, where rendered, the screen
RemovePlacements(ps) ==
    /\ placements' = Without(placements, ps)
    /\ told' = Without(told, ps)
    /\ screen' = Erase(screen, ps)
    /\ UNCHANGED nextPlacement

EveryPlacement(c) == DOMAIN placements   \* mutant: the loop forgets the owner check
PlacementsOf(c) == {p \in DOMAIN placements : placements[p].client = c}

\* handleUnplace: any client may name any id, only the owner's request counts
Unplace(c, p) ==
    /\ running
    /\ p \in DOMAIN placements
    /\ placements[p].client = c
    /\ RemovePlacements({p})
    /\ UNCHANGED <<running, owned, topology, termImages>>

\* handleUnplaceAll
UnplaceAll(c) ==
    /\ running
    /\ RemovePlacements(PlacementsOf(c))
    /\ UNCHANGED <<running, owned, topology, termImages>>

-----------------------------------------------------------------------------
HandlesOf(img) == {k \in DOMAIN images : images[k] = img}
HeldBy(c) == {k \in DOMAIN images : k[1] = c}

\* assignHandle: the least handle the client does not hold among those of hs
FirstFree(hs, c, h) == <<c, h>> \notin hs /\ \A g \in 1..(h - 1) : <<c, g>> \in hs

\* handleUpload, cache hit; j is the place of the entry's LRU element
UploadHit(c, d, h, j) ==
    /\ running
    /\ Cached(cache, d)
    /\ cache.lru[j] = Lookup(cache, d)
    /\ FirstFree(DOMAIN images, c, h)
    /\ images' = [k \in DOMAIN images \cup {<<c, h>>} |->
                     IF k = <<c, h>> THEN Lookup(cache, d) ELSE images[k]]
    /\ cache' = StoreHit(cache, d, j)
    /\ UNCHANGED <<running, placements, nextImage, nextPlacement, topology,
                   termImages, screen, told>>

\* handleUpload, cache miss: transmit, store, free the n images evicted from the
\* cache on the terminal, drop the handles on them (notifyEviction), assign.
UploadMiss(c, d, h, n) ==
    LET img == nextImage
        gone == Victims(cache, n)
        kept == {k \in DOMAIN images : images[k] \notin gone}
    IN  /\ running
        /\ ~Cached(cache, d)
        /\ nextImage <= MaxImages
        /\ nextImage' = nextImage + 1
        /\ EvictsExactly(cache, n)
        /\ cache' = StoreMiss(cache, d, img, n)
        /\ termImages' = FreeData(termImages \cup {img}, gone)
        /\ screen' = FreeOnScreen(screen, gone)
        /\ FirstFree(kept, c, h)
        /\ images' = [k \in kept \cup {<<c, h>>} |-> IF k = <<c, h>> THEN img ELSE images[k]]
        /\ UNCHANGED <<running, placements, nextPlacement, topology, told>>

FreeNow(c, h) ==   \* mutant: frees the image on the terminal whoever else holds it
    /\ running
    /\ <<c, h>> \in DOMAIN images
    /\ images' = Without(images, {<<c, h>>})
    /\ cache' = ReleaseAll(cache, images, {<<c, h>>})
    /\ termImages' = FreeData(termImages, {images[<<c, h>>]})
    /\ UNCHANGED <<running, placements, nextImage, nextPlacement, topology, screen, told>>

\* handleFree: the handle goes, its placements and the terminal's copy stay
Free(c, h) ==
    /\ running
    /\ <<c, h>> \in DOMAIN images
    /\ images' = Without(images, {<<c, h>>})
    /\ cache' = ReleaseAll(cache, images, {<<c, h>>})
    /\ UNCHANGED <<running, placements, nextImage, nextPlacement, topology,
                   termImages, screen, told>>

\* handleClientDisconnect: placements, handles and windows of the client go.
\* Placements of other clients are not recomputed.
ClientDisconnect(c) ==
    /\ running
    /\ RemovePlacements(PlacementsOf(c))
    /\ images' = Without(images, HeldBy(c))
    /\ cache' = ReleaseAll(cache, images, HeldBy(c))
    /\ wins' = Without(wins, {w \in DOMAIN wins : wins[w].client = c})
    /\ UNCHANGED <<running, nextImage, panes, termSize, termImages>>

-----------------------------------------------------------------------------
\* handleRegisterWin: a window id is global, the last client to register it owns it
RegisterWin(c, w, shape) ==
    /\ running
    /\ wins' = [v \in DOMAIN wins \cup {w} |->
                   IF v = w
                   THEN [client |-> c, pane |-> shape.pane, top |-> shape.top,
                         left |-> shape.left, height |-> shape.height, scroll |-> shape.scroll]
                   ELSE wins[v]]
    /\ Recompute(panes, wins', termSize)
    /\ UNCHANGED <<running, owned, nextPlacement, panes, termSize, termImages>>

\* handleScrollUpdate
ScrollUpdate(w, top) ==
    /\ running
    /\ w \in DOMAIN wins
    /\ wins' = [wins EXCEPT ![w].scroll = top]
    /\ Recompute(panes, wins', termSize)
    /\ UNCHANGED <<running, owned, nextPlacement, panes, termSize, termImages>>

\* handleUnregisterWin: recomputes even when the window is not known
UnregisterWin(w) ==
    /\ running
    /\ wins' = Without(wins, {w})
    /\ Recompute(panes, wins', termSize)
    /\ UNCHANGED <<running, owned, nextPlacement, panes, termSize, termImages>>

SetPanesOnly(layout) ==   \* mutant: no recomputePlacements
    /\ running
    /\ panes' = layout
    /\ UNCHANGED <<running, owned, nextPlacement, placements, screen, told, wins,
                   termSize, termImages>>

\* handleUpdatePanes
UpdatePanes(layout) ==
    /\ running
    /\ panes' = layout
    /\ Recompute(panes', wins, termSize)
    /\ UNCHANGED <<running, owned, nextPlacement, wins, termSize, termImages>>

\* Run, a value from writer.Size
Resize(sz) ==
    /\ running
    /\ termSize' = sz
    /\ Recompute(panes, wins, termSize')
    /\ UNCHANGED <<running, owned, nextPlacement, panes, wins, termImages>>

\* Run returns, cleanupRenderedPlacements: delete what is rendered, free the
\* images some client holds a handle on.
Stop ==
    LET held == {images[k] : k \in DOMAIN images}
    IN  /\ running
        /\ running' = FALSE
        /\ screen' = FreeOnScreen(Erase(screen, DOMAIN placements), held)
        /\ termImages' = FreeData(termImages, held)
        /\ UNCHANGED <<placements, owned, nextPlacement, topology, told>>

Next ==
    \/ \E k \in DOMAIN images, a \in Anchors : Place(k[1], k[2], a)
    \/ \E c \in Clients, p \in DOMAIN placements : Unplace(c, p)
    \/ \E c \in Clients : UnplaceAll(c)
    \/ \E c \in Clients, d \in Data, h \in Handles :
          \/ \E j \in 1..Len(cache.lru) : UploadHit(c, d, h, j)
          \/ \E n \in 0..Len(cache.lru) : UploadMiss(c, d, h, n)
    \/ \E k \in DOMAIN images : Free(k[1], k[2])
    \/ \E c \in Clients : ClientDisconnect(c)
    \/ \E c \in Clients, w \in WinIds, shape \in Shapes : RegisterWin(c, w, shape)
    \/ \E w \in WinIds, top \in Scrolls : ScrollUpdate(w, top)
    \/ \E w \in WinIds : UnregisterWin(w)
    \/ \E layout \in Layouts : UpdatePanes(layout)
    \/ \E sz \in Sizes : Resize(sz)
    \/ Stop

Spec == Init /\ [][Next]_vars

-----------------------------------------------------------------------------
(* Safety.                                                                  *)

PanesType(pn) == DOMAIN pn \subseteq PaneIds /\ \A p \in DOMAIN pn : pn[p] \in Pane
WinsType(wn) == DOMAIN wn \subseteq WinIds /\ \A w \in DOMAIN wn : wn[w] \in Win
PlacementsType(pl) == DOMAIN pl \subseteq PlacementIds /\ \A p \in DOMAIN pl : pl[p] \in Placement

TypeOK ==
    /\ running \in BOOLEAN
    /\ PlacementsType(placements)
    /\ DOMAIN images \subseteq Clients \X Handles /\ IsFiniteSet(DOMAIN images)
    /\ \A k \in DOMAIN images : images[k] \in ImageIds
    /\ CacheType(cache, ImageIds)
    /\ nextImage \in 1..(MaxImages + 1)
    /\ nextPlacement \in 0..MaxPlacements
    /\ PanesType(panes) /\ WinsType(wins)
    /\ termSize \in Size
    /\ termImages \subseteq ImageIds
    /\ screen \subseteq Shown
    /\ DOMAIN told = DOMAIN placements
    /\ \A p \in DOMAIN told : told[p] \in {"none", "shown", "hidden"}

\* The three indexes of the cache agree after every eviction, hit and release:
\* Store updates the hash map, the id map and the LRU list one by one.
CacheCoherent == Coherent(cache)

\* The reference count of a cached image is the number of handles, over all
\* clients, that name it.  handleUpload, handleFree and handleClientDisconnect
\* each pair a change of the handle maps with a Store or a Release.
RefsCountHandles ==
    \A i \in DOMAIN cache.byID : cache.byID[i].refs = Cardinality(HandlesOf(i))

\* The accounts of cached images, kept by several handlers for several clients,
\* agree: the cache's indexes with one another, its counts with the handles.
CountsAgree == CacheCoherent /\ RefsCountHandles

\* A handle a client holds is always good: its image is cached, and the
\* terminal stores it, whatever other clients upload, free or evict.
HandlesBacked ==
    running => \A k \in DOMAIN images : images[k] \in DOMAIN cache.byID \cap termImages

\* The terminal stores exactly the cached images: an image that left the cache
\* was freed (the loop over `evicted` in handleUpload), nothing leaks.
TerminalHoldsTheCache == running => termImages = DOMAIN cache.byID

\* No ghosts: whatever is on the screen belongs to a live placement the engine
\* counts as rendered, at the position the engine recorded for it.
NoGhosts ==
    \A s \in screen :
        /\ s.pid \in DOMAIN placements
        /\ placements[s.pid].rendered
        /\ s.img = placements[s.pid].img
        /\ s.row = placements[s.pid].row /\ s.col = placements[s.pid].col

\* The converse: a placement the engine counts as rendered is on the screen
\* where the engine says, as long as the terminal still stores its image and
\* the position is one PlaceCommand.Serialize can express.
RenderedIsShown ==
    running => \A p \in DOMAIN placements :
        LET q == placements[p]
        IN  q.rendered /\ q.row >= 0 /\ q.col >= 0 /\ q.img \in termImages
              => [img |-> q.img, pid |-> p, row |-> q.row, col |-> q.col] \in screen

Orphaned(p) ==
    placements[p].anchor.type = "nvim_win" /\ placements[p].anchor.at \notin DOMAIN wins

\* The recorded position and visibility of a placement are what ScreenPos gives
\* for the present panes, windows and size: no handler that changes one of them
\* forgets recomputePlacements.  The exception is a placement whose window
\* went away with the client that registered it (handleClientDisconnect).
PositionsCurrent ==
    \A p \in DOMAIN placements :
        LET q == placements[p]
        IN  At(q.row, q.col, q.visible) = Resolve(q.anchor, panes, wins, termSize)
              \/ Orphaned(p)

\* What the geometry shows of an anchor's pane and of its window: the cells of a
\* pane, the pane if its tmux window is in front, the buffer lines of a window
CellsOf(pn) == (pn.top .. pn.top + pn.height - 1) \X (pn.left .. pn.left + pn.width - 1)
InFront(id) == {panes[i] : i \in {j \in DOMAIN panes : j = id /\ panes[j].active}}
LinesOf(w) == w.scroll .. w.scroll + w.height - 1

\* The cell an anchor names, if that is a cell of its pane and a line of its window
CellNamed(a) ==
    CASE a.type = "absolute" ->
            {x \in {<<a.row, a.col>>} \cap (Nat \X Nat) :
                /\ termSize.rows = 0 \/ x[1] \in 0..termSize.rows - 1
                /\ termSize.cols = 0 \/ x[2] \in 0..termSize.cols - 1}
      [] a.type = "pane" ->
            UNION {CellsOf(pn) \cap {<<pn.top + a.row, pn.left + a.col>>} : pn \in InFront(a.at)}
      [] a.type = "nvim_win" /\ a.at \in DOMAIN wins ->
            LET w == wins[a.at]
                inWin == {<<w.top + (l - w.scroll), w.left + a.col>> : l \in LinesOf(w) \cap {a.row}}
            IN  IF w.pane = NoPane THEN inWin
                ELSE UNION {CellsOf(pn) \cap {<<pn.top + x[1], pn.left + x[2]>> : x \in inWin} :
                               pn \in InFront(w.pane)}
      [] OTHER -> {}

\* After any history, a placement is on the screen if and only if the cell its
\* anchor names is shown now: a cell of the pane in front, a line of the window,
\* the borders included.  ScreenPos looks at no more than that cell, the upper
\* left of the image, and not at the window's width: the rest of the image may
\* cover a neighbour.  Excepted are a window gone with its client, an image the
\* terminal no longer stores, and a cell left of or above the screen.
ShownWhereAnchored ==
    /\ \A s \in screen :
          ~Orphaned(s.pid) => <<s.row, s.col>> \in CellNamed(placements[s.pid].anchor)
    /\ running => \A p \in DOMAIN placements :
          placements[p].img \in termImages /\ ~Orphaned(p) =>
              \A x \in CellNamed(placements[p].anchor) \cap (Nat \X Nat) :
                  \E s \in screen : s.pid = p

\* A client that was ever notified of a placement's visibility was last told
\* its present visibility (the visibility_changed of recomputePlacements).
ToldIsCurrent ==
    \A p \in DOMAIN told :
        told[p] # "none" => (told[p] = "shown" <=> placements[p].visible)

\* Once Run has returned nothing is displayed (cleanupRenderedPlacements).
StopClearsTheScreen == ~running => screen = {}

\* What a handle names never changes, and the handles and placements one step
\* takes away all belong to one client: no client's request, disconnect or
\* upload (through eviction) costs another client a handle or a placement.
OneClientLoses ==
    [][LET lost == DOMAIN images \ DOMAIN images'
           gone == DOMAIN placements \ DOMAIN placements'
           losers == {k[1] : k \in lost} \cup {placements[p].client : p \in gone}
       IN  /\ \A k \in DOMAIN images \cap DOMAIN images' : images'[k] = images[k]
           /\ \A b, c \in losers : b = c]_vars

-----------------------------------------------------------------------------
(* What the documents say and the code does not do; see the README.         *)

\* SPEC.md:638 "On each event, the engine: ... Recomputes screen coordinates
\* for all affected placements"
EveryPositionCurrent ==
    \A p \in DOMAIN placements :
        LET q == placements[p]
        IN  At(q.row, q.col, q.visible) = Resolve(q.anchor, panes, wins, termSize)

\* SPEC.md:707 "LRU eviction only considers entries with zero active placements"
PlacedImagesAreCached ==
    running => \A p \in DOMAIN placements : placements[p].img \in DOMAIN cache.byID

\* engine.go:426 "frees all uploaded images from the terminal so nothing
\* persists after shutdown"
StopFreesEveryImage == ~running => termImages = {}
=============================================================================

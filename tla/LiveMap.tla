------------------------------ MODULE LiveMap ------------------------------
(***************************************************************************)
(* The live map of the Track tab: the view, the tile cache                 *)
(* (src/app/src/map.rs) and the part of the controller that moves the one  *)
(* and fills the other (src/app/src/controller.rs).  Gestures come on the  *)
(* UI thread, fetched tiles and tracks on the runtime's threads; one mutex *)
(* guards the state, and a gesture takes it twice.                         *)
(*                                                                         *)
(* Positions are whole pixels at MaxZoom, x to the east without end, y to  *)
(* the south and clamped as the projection clamps it.  The projection      *)
(* itself is left out: x is linear in longitude; y is not in latitude, so  *)
(* nothing is claimed of the vertical place a fit chooses.                 *)
(***************************************************************************)
EXTENDS Integers, Sequences, FiniteSets, SequencesExt, Bags, Lists

CONSTANTS
    Peers,
    Points,          \* where a peer may be
    Viewports,       \* sizes of the window
    Drags,           \* how far one gesture drags, in pixels
    Home,            \* where the map opens without peers
    TileSize, MinZoom, MaxZoom,
    SoloZoom,        \* the zoom for one peer
    MinBudget,       \* the least room a fit reckons with, 64 pixels
    Margin,          \* TILE_MARGIN
    CacheCap,        \* CACHE_CAP
    Nowhere,         \* of a peer that is not live or sent no fix
    MaxMoves,        \* bound: gestures and track updates
    MaxPans          \* bound: how many worlds away from home

LargerOf(a, b) == IF a > b THEN a ELSE b
SmallerOf(a, b) == IF a < b THEN a ELSE b
Least(S) == CHOOSE i \in S : \A j \in S : i <= j
Greatest(S) == CHOOSE i \in S : \A j \in S : i >= j

(* The map is a square of tiles, twice as many to a side at each zoom. *)
TilesAt[z \in 0..MaxZoom] == IF z = 0 THEN 1 ELSE 2 * TilesAt[z - 1]

World == TileSize * TilesAt[MaxZoom]

ASSUME LiveMapAssumption ==
    /\ MinZoom \in Nat /\ MaxZoom \in Nat /\ MinZoom <= MaxZoom
    /\ TileSize \in Nat \ {0} /\ Margin \in Nat
    /\ SoloZoom \in MinZoom..MaxZoom
    /\ CacheCap \in Nat \ {0} /\ MaxMoves \in Nat /\ MaxPans \in Nat
    /\ Nowhere \notin Points
    /\ Points \cup {Home} \subseteq [x: 0..World, y: 0..World]
    /\ Viewports \subseteq [w: Nat, h: Nat]
    /\ Drags \subseteq [x: Int, y: Int]

VARIABLES
    map,      \* MapState: open, centre, zoom, size of the window
    tiles,    \* MapState::tiles: tile -> slot
    order,    \* MapState::order
    tracks,   \* ViewState::tracks: where each live peer is
    fetches,  \* fetches in flight, a bag of tiles
    ui,       \* what the UI thread does next
    moves

mapVars == <<map, tiles, order, tracks, fetches, ui, moves>>

Loading == "Loading"
Loaded == "Loaded"
Failed == "Failed"

(* Whatever goes wrong with the connection, the answer or the image. *)
Outcomes == {Loaded, Failed}

-----------------------------------------------------------------------------
(***************************************************************************)
(* The view.                                                               *)
(***************************************************************************)
(* Pixels at MaxZoom in one pixel, and in one tile, at zoom z. *)
Scale(z) == TilesAt[MaxZoom - z]
TileWidth(z) == TileSize * Scale(z)

OnWorld(y) == LargerOf(0, SmallerOf(y, World))

(* Mutant: columns do not wrap. *)
ColumnUnwrapped(tx, z) == LargerOf(0, SmallerOf(tx, TilesAt[z] - 1))

(* Columns wrap around the globe. *)
Column(tx, z) == tx % TilesAt[z]

Placement(m, tx, ty) ==
    [id |-> [z |-> m.zoom, x |-> Column(tx, m.zoom), y |-> ty],
     dx |-> tx * TileWidth(m.zoom) - m.x, dy |-> ty * TileWidth(m.zoom) - m.y]

Reach(side, z) == (side \div 2 + Margin) * Scale(z)

(* The tile that is `by` pixels away from `centre`, counted from the edge. *)
TileAt(centre, by, z) == (centre + by) \div TileWidth(z)

(* Row by row, and no rows beyond the poles. *)
VisibleTiles(m) ==
    LET z == m.zoom
        west  == TileAt(m.x, -Reach(m.w, z), z)
        east  == TileAt(m.x, Reach(m.w, z), z)
        north == LargerOf(0, TileAt(m.y, -Reach(m.h, z), z))
        south == SmallerOf(TilesAt[z] - 1, TileAt(m.y, Reach(m.h, z), z))
        across == east - west + 1
    IN  [k \in 1..(across * (south - north + 1)) |->
            Placement(m, west + ((k - 1) % across), north + ((k - 1) \div across))]

(* The centre follows the finger; north of the world it counts as its edge. *)
Panned(m, d) == [m EXCEPT !.x = @ - d.x * Scale(m.zoom),
                          !.y = OnWorld(@ - d.y * Scale(m.zoom))]

LivePeers == {p \in Peers : tracks[p] # Nowhere}

Budget(side) == LargerOf((side * 4) \div 5, MinBudget)

Fits(z, spanX, spanY, m) ==
    spanX <= Budget(m.w) * Scale(z) /\ spanY <= Budget(m.h) * Scale(z)

(* fit: a world view without peers, a street for one, else the closest     *)
(* zoom at which they fit the window, or MinZoom when there is none.       *)
Framed(m) ==
    LET xs == {tracks[p].x : p \in LivePeers}
        ys == {tracks[p].y : p \in LivePeers}
        centre(S) == (Least(S) + Greatest(S)) \div 2
        span(S) == Greatest(S) - Least(S)
        zooms == {z \in MinZoom..MaxZoom : Fits(z, span(xs), span(ys), m)}
    IN  CASE LivePeers = {} -> [m EXCEPT !.x = Home.x, !.y = Home.y, !.zoom = MinZoom]
          [] Cardinality(LivePeers) = 1 ->
               [m EXCEPT !.x = centre(xs), !.y = centre(ys), !.zoom = SoloZoom]
          [] OTHER ->
               [m EXCEPT !.x = centre(xs), !.y = centre(ys),
                         !.zoom = Greatest(zooms \cup {MinZoom})]

-----------------------------------------------------------------------------
(***************************************************************************)
(* The cache: slots by tile, and the tiles in the order they came.         *)
(***************************************************************************)
Cache == [slots |-> tiles, order |-> order]

Evicted(c) ==
    IF Len(c.order) <= CacheCap THEN c
    ELSE [slots |-> Restrict(c.slots, DOMAIN c.slots \ {Head(c.order)}),
          order |-> Tail(c.order)]

Insert(c, id, slot) ==
    Evicted([slots |-> [x \in DOMAIN c.slots \cup {id} |->
                           IF x = id THEN slot ELSE c.slots[x]],
             order |-> IF id \in DOMAIN c.slots THEN c.order
                       ELSE Append(c.order, id)])

(* Mutant: only failures are dropped. *)
RetainUnfailed(c) ==
    LET kept == {id \in DOMAIN c.slots : c.slots[id] # Failed}
    IN  [slots |-> Restrict(c.slots, kept),
         order |-> Keep(c.order, {i \in DOMAIN c.order : c.order[i] \in kept})]

RetainLoaded(c) ==
    LET kept == {id \in DOMAIN c.slots : c.slots[id] = Loaded}
    IN  [slots |-> Restrict(c.slots, kept),
         order |-> Keep(c.order, {i \in DOMAIN c.order : c.order[i] \in kept})]

(* One tile of the window: unless the cache has it, it is to be fetched. *)
Marked(found, id) ==
    IF id \in DOMAIN found.cache.slots THEN found
    ELSE [cache |-> Insert(found.cache, id, Loading),
          fetch |-> found.fetch (+) SetToBag({id})]

Refreshed(found, asked) ==
    LET done[n \in 0..Len(asked)] ==
            IF n = 0 THEN found ELSE Marked(done[n - 1], asked[n].id)
    IN  done[Len(asked)]

SetCache(c) == tiles' = c.slots /\ order' = c.order

-----------------------------------------------------------------------------
(***************************************************************************)
(* Gestures.  Each changes the view under the lock, lets it go, and        *)
(* refreshes the map under the lock again.                                 *)
(***************************************************************************)
Gesture == ui = "idle" /\ moves < MaxMoves /\ moves' = moves + 1

OpenMapView ==
    /\ Gesture /\ ~map.open
    /\ SetCache(RetainLoaded(Cache))
    /\ map' = Framed([map EXCEPT !.open = TRUE])
    /\ ui' = "framed"
    /\ UNCHANGED <<tracks, fetches>>

MapFit ==
    /\ Gesture /\ map.open
    /\ map' = Framed(map)
    /\ ui' = "framed"
    /\ UNCHANGED <<tiles, order, tracks, fetches>>

MapPan ==
    /\ Gesture /\ map.open
    /\ \E d \in Drags : map' = Panned(map, d)
    /\ map'.x \in -(MaxPans * World)..(MaxPans * World)
    /\ ui' = "moved"
    /\ UNCHANGED <<tiles, order, tracks, fetches>>

(* The buttons, and a pinch of one level or more. *)
MapZoom ==
    /\ Gesture /\ map.open
    /\ \E delta \in {-1, 1} :
           map' = [map EXCEPT !.zoom = LargerOf(MinZoom, SmallerOf(@ + delta, MaxZoom))]
    /\ ui' = "moved"
    /\ UNCHANGED <<tiles, order, tracks, fetches>>

MapViewport ==
    /\ Gesture
    /\ \E v \in Viewports :
           /\ v # [w |-> map.w, h |-> map.h]
           /\ map' = [map EXCEPT !.w = v.w, !.h = v.h]
    /\ ui' = "moved"
    /\ UNCHANGED <<tiles, order, tracks, fetches>>

MapClose ==
    /\ ui = "idle" /\ map.open
    /\ map' = [map EXCEPT !.open = FALSE]
    /\ UNCHANGED <<tiles, order, tracks, fetches, ui, moves>>

(* Tiles the cache lacks are marked, row by row, and fetched. *)
RefreshMap ==
    /\ ui # "idle" /\ ui' = "idle"
    /\ IF ~map.open THEN UNCHANGED <<tiles, order, fetches>>
       ELSE LET done == Refreshed([cache |-> Cache, fetch |-> fetches], VisibleTiles(map))
            IN  SetCache(done.cache) /\ fetches' = done.fetch
    /\ UNCHANGED <<map, tracks, moves>>

-----------------------------------------------------------------------------
(***************************************************************************)
(* The runtime's threads: tiles as they come, in any order, and tracks.    *)
(***************************************************************************)
TileFetched(id, slot) ==
    /\ BagIn(id, fetches)
    /\ fetches' = fetches (-) SetToBag({id})
    /\ IF map.open THEN SetCache(Insert(Cache, id, slot)) ELSE UNCHANGED <<tiles, order>>
    /\ UNCHANGED <<map, tracks, ui, moves>>

OnTracks ==
    /\ moves < MaxMoves /\ moves' = moves + 1
    /\ tracks' \in [Peers -> Points \cup {Nowhere}]
    /\ UNCHANGED <<map, tiles, order, fetches, ui>>

-----------------------------------------------------------------------------
MapInit ==
    /\ \E v \in Viewports :
           map = [open |-> FALSE, x |-> Home.x, y |-> Home.y, zoom |-> MinZoom,
                  w |-> v.w, h |-> v.h]
    /\ tiles = <<>> /\ order = <<>>
    /\ tracks = [p \in Peers |-> Nowhere]
    /\ fetches = EmptyBag
    /\ ui = "idle" /\ moves = 0

MapNext ==
    \/ OpenMapView \/ MapFit \/ MapPan \/ MapZoom \/ MapViewport \/ MapClose
    \/ RefreshMap \/ OnTracks
    \/ \E id \in BagToSet(fetches), slot \in Outcomes : TileFetched(id, slot)

MapSpec == MapInit /\ [][MapNext]_mapVars

-----------------------------------------------------------------------------
(* Each tile once, and no more than the cap. *)
IndexesAgree ==
    /\ Len(order) <= CacheCap
    /\ ToSet(order) = DOMAIN tiles
    /\ IsInjective(order)

LoadingIsFetched ==
    map.open => \A id \in DOMAIN tiles : tiles[id] = Loading => BagIn(id, fetches)

(***************************************************************************)
(* Whatever was replaced, evicted, dropped on reopening or put back by a   *)
(* fetch that came late, the slots and the order they are evicted in are   *)
(* about the same tiles; and no tile of an open map waits for a fetch that *)
(* is not on its way: an answer that found the map closed is thrown away,  *)
(* and nothing fetches a tile whose slot says Loading.                     *)
(***************************************************************************)
CacheSound == IndexesAgree /\ LoadingIsFetched

Half(side) == (side \div 2) * Scale(map.zoom)

(* The pixel `by` from the centre: the tile asked for there is the one of  *)
(* that place of the globe, and the only one.                              *)
TiledAt(asked, by) ==
    LET width == TileWidth(map.zoom)
        covering == {t \in asked :
                        /\ by[1] \in t.dx..(t.dx + width - 1)
                        /\ by[2] \in t.dy..(t.dy + width - 1)}
        place == [z |-> map.zoom, x |-> ((map.x + by[1]) % World) \div width,
                  y |-> (map.y + by[2]) \div width]
    IN  Cardinality(covering) = 1 /\ \A t \in covering : t.id = place

(***************************************************************************)
(* The tiles asked for cover the window, each corner by one tile, which is *)
(* the one of that place of the globe, at every zoom, at the poles and     *)
(* however far around the world the map was dragged.                       *)
(***************************************************************************)
WindowTiled ==
    LET asked == ToSet(VisibleTiles(map))
    IN  \A by \in {Half(map.w), 0, -Half(map.w)} \X {Half(map.h), 0, -Half(map.h)} :
            map.y + by[2] \in 0..(World - 1) => TiledAt(asked, by)
=============================================================================

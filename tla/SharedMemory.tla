---------------------------- MODULE SharedMemory ----------------------------
(***************************************************************************)
(* The memory the elements pass on: surfaces of a pool                     *)
(* (gst/nvmmalloc/gstnvmmbufferpool.cpp), the memories that own them and   *)
(* the shares of those (gstnvmmallocator.cpp), and the handle through      *)
(* which planes are mapped (gst/common/nvmm_buffer.cpp).  Surfaces are     *)
(* those of the repository's stand-in for the driver                       *)
(* (gst/common/nvbufsurface_mock.h), where mapping makes a copy of a plane *)
(* and unmapping writes it back.                                           *)
(***************************************************************************)
EXTENDS Integers, FiniteSets

CONSTANTS
  Memories,    (* Memories that can exist at a time.                       *)
  Planes,      (* The planes of a surface.                                 *)
  None         (* A value of nothing else.                                 *)

(* What a surface and a mapping are, as the variables below say.           *)
Surfaces == [data : [Planes -> BOOLEAN], copy : [Planes -> BOOLEAN \union {None}],
             mapped : BOOLEAN, plane : Planes \union {None}]
Mappings == [plane : Planes, write : BOOLEAN]

ASSUME SharedMemoryAssumption ==
  None \notin Memories \union Planes \union BOOLEAN \union Surfaces \union Mappings

VARIABLES
  owner,       (* The memory that owns a memory's surface: itself, or for  *)
               (* a share its parent.  None where there is no memory.      *)
  held,        (* The memories somebody has a reference to, shares apart.  *)
  surface,     (* The surface of an owner and the handle on it: for each   *)
               (* plane whether its data, and its copy while it is mapped, *)
               (* are what the plane was last given; mapped_ and           *)
               (* mapped_plane_.                                           *)
  mapping,     (* The plane each holder has mapped, and whether to write.  *)
  clashed      (* History: the surfaces that were used while another had   *)
               (* them mapped.                                             *)

shmVars == <<owner, held, surface, mapping, clashed>>

Exists(m) == owner[m] # None
IsShare(m) == Exists(m) /\ owner[m] # m
SharesOf(o) == {m \in Memories \ {o} : owner[m] = o}

AllNewest == [p \in Planes |-> TRUE]
NewSurface == [data |-> AllNewest, copy |-> [p \in Planes |-> None], mapped |-> FALSE, plane |-> None]

ShmInit ==
  /\ owner = [m \in Memories |-> None]
  /\ held = {}
  /\ surface = [m \in Memories |-> None]
  /\ mapping = [m \in Memories |-> None]
  /\ clashed = {}

(* alloc_buffer, of whichever pool: a pool that is configured again makes  *)
(* an allocator of its own, and the memories of the old one keep theirs.   *)
(* The surface is made by a handle that is moved into the memory, and the  *)
(* empty handle destroyed.                                                 *)
Alloc(m) ==
  /\ ~Exists(m)
  /\ owner' = [owner EXCEPT ![m] = m]
  /\ held' = held \union {m}
  /\ surface' = [surface EXCEPT ![m] = NewSurface]
  /\ UNCHANGED <<mapping, clashed>>

(* mem_share: a share of a share is one of the owner.                      *)
Share(m, s) ==
  /\ m \in held /\ ~Exists(s)
  /\ owner' = [owner EXCEPT ![s] = owner[m]]
  /\ held' = held \union {s}
  /\ UNCHANGED <<surface, mapping, clashed>>

(* Mutant: a share keeps nothing alive.                                    *)
FreedAlone(m) == {m}

(* What goes when the reference to m does: a share, and the owner with the *)
(* last of them that holds it.                                             *)
Freed(m) ==
  LET o == owner[m]
  IN  (IF m = o THEN {} ELSE {m})
      \union (IF o \in held \ {m} \/ SharesOf(o) \ {m} # {} THEN {} ELSE {o})

(* With an owner its handle goes, which destroys the surface.              *)
Unref(m) ==
  /\ m \in held /\ mapping[m] = None
  /\ held' = held \ {m}
  /\ owner' = [n \in Memories |-> IF n \in Freed(m) THEN None ELSE owner[n]]
  /\ surface' = [n \in Memories |-> IF n \in Freed(m) THEN None ELSE surface[n]]
  /\ clashed' = clashed \ Freed(m)
  /\ UNCHANGED <<mapping>>

-----------------------------------------------------------------------------
(* Mapping planes through the handle of the owner.                         *)

Clash(o) == IF \E m \in Memories : owner[m] = o /\ mapping[m] # None THEN {o} ELSE {}

(* The driver: a plane that is mapped keeps its copy, and what is not      *)
(* mapped is not written back.                                             *)
SurfaceMap(s, p) == [s EXCEPT !.copy[p] = IF @ = None THEN s.data[p] ELSE @]

SurfaceUnMap(s, p) ==
  IF s.copy[p] = None THEN s
  ELSE [s EXCEPT !.data[p] = s.copy[p], !.copy[p] = None]

(* Mutant: map_read does not note that it has mapped.                      *)
MappedSilently(s, p, write) ==
  [SurfaceMap(s, p) EXCEPT !.mapped = @ \/ write, !.plane = p]

(* map_read and map_write.                                                 *)
Mapped(s, p, write) == [SurfaceMap(s, p) EXCEPT !.mapped = TRUE, !.plane = p]

(* unmap: the plane that was mapped last, if any.                          *)
Unmapped(s) ==
  IF ~s.mapped THEN s
  ELSE [SurfaceUnMap(s, s.plane) EXCEPT !.mapped = FALSE, !.plane = None]

(* gst_nvmm_memory_map_plane, which looks at no flag of the memory.        *)
MapPlane(m, p, write) ==
  /\ m \in held /\ mapping[m] = None
  /\ surface[owner[m]] # None
  /\ surface' = [surface EXCEPT ![owner[m]] = Mapped(@, p, write)]
  /\ mapping' = [mapping EXCEPT ![m] = [plane |-> p, write |-> write]]
  /\ clashed' = clashed \union Clash(owner[m])
  /\ UNCHANGED <<owner, held>>

(* The holder changes what it sees of the plane.                           *)
Write(m) ==
  LET o == owner[m]
      p == mapping[m].plane
  IN
  /\ mapping[m] # None /\ mapping[m].write
  /\ surface[o] # None /\ surface[o].copy[p] # None
  /\ surface' = [surface EXCEPT ![o].copy[p] = TRUE, ![o].data[p] = FALSE]
  /\ UNCHANGED <<owner, held, mapping, clashed>>

UnmapPlane(m) ==
  /\ mapping[m] # None
  /\ surface' = [surface EXCEPT ![owner[m]] = IF @ = None THEN None ELSE Unmapped(@)]
  /\ mapping' = [mapping EXCEPT ![m] = None]
  /\ UNCHANGED <<owner, held, clashed>>

-----------------------------------------------------------------------------
Stale(copy) == [p \in Planes |-> IF copy[p] = None THEN None ELSE FALSE]

(* NvmmTransform::transform: what is made of the surfaces of source and    *)
(* destination, nothing when the driver refuses.                           *)
Converted(dst, ok) ==
  IF ok THEN [surface EXCEPT ![dst].data = AllNewest, ![dst].copy = Stale(@)] ELSE surface

(* nvmmconvert's transform borrows two surfaces in handles that would      *)
(* destroy what they have, and takes both back on either way out; the      *)
(* driver may refuse.                                                      *)
Transform(m, n, ok) ==
  LET src == owner[m]
      dst == owner[n]
  IN
  /\ {m, n} \subseteq held /\ src # dst
  /\ None \notin {surface[src], surface[dst]}
  /\ surface' = Converted(dst, ok)
  /\ clashed' = clashed \union Clash(src) \union Clash(dst)
  /\ UNCHANGED <<owner, held, mapping>>

ShmNext ==
  \E m \in Memories :
    \/ Alloc(m) \/ Unref(m) \/ Write(m) \/ UnmapPlane(m)
    \/ \E s \in Memories : Share(m, s)
    \/ \E p \in Planes, write \in BOOLEAN : MapPlane(m, p, write)
    \/ \E n \in Memories, ok \in BOOLEAN : Transform(m, n, ok)

ShmSpec == ShmInit /\ [][ShmNext]_shmVars

-----------------------------------------------------------------------------
(***************************************************************************)
(* In whatever order an owner and its shares are given up, and whether     *)
(* conversions work or fail, every memory that is left still reaches a     *)
(* surface, and no surface is left without a memory (gstnvmmallocator.cpp: *)
(* 13, gstnvmmconvert.cpp:338).                                            *)
(***************************************************************************)
SurfacesReachable ==
  /\ \A m \in held : Exists(m)
  /\ \A m \in Memories : Exists(m) => surface[owner[m]] # None
  /\ \A o \in Memories : surface[o] # None => owner[o] = o

(***************************************************************************)
(* As long as the holders of a surface take turns, mapping shows what the  *)
(* plane was last given, by a holder or by the driver, and unmapping puts  *)
(* it there: nothing is left mapped, whichever plane and whoever it was.   *)
(***************************************************************************)
TurnsKeepWrites ==
  \A o \in Memories \ clashed : surface[o] # None =>
    \A p \in Planes :
      IF \E m \in Memories : owner[m] = o /\ mapping[m] # None /\ mapping[m].plane = p
      THEN surface[o].copy[p] = TRUE
      ELSE surface[o].data[p] /\ surface[o].copy[p] = None

(***************************************************************************)
(* "READONLY share by reference, so one tee branch cannot mutate what the  *)
(* others see" (gstnvmmallocator.cpp:53).                                  *)
(***************************************************************************)
SharesReadOnly ==
  [][~\E s \in Memories : IsShare(s) /\ Write(s)]_shmVars
=============================================================================

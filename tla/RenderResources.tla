---------------------------- MODULE RenderResources ----------------------------
(***************************************************************************)
(* RenderResources: who owns what the render device holds.                 *)
(*                                                                         *)
(* A MeshEntry owns a device mesh and refers to a MaterialEntry, which     *)
(* owns a device material and refers to TextureEntry's, which own device   *)
(* textures.  Entries are reference counted, and the caches refer to them  *)
(* weakly.  The last reference may go on the main thread or on the thread  *)
(* that loads a scene; destructors ask for deferred deletion, and the main *)
(* thread deletes at the start of the next frame.                          *)
(*                                                                         *)
(* A destructor is a program: what it defers and which references it drops, *)
(* one step each, so that two threads may drop the last two references to  *)
(* an entry, or the main thread may load a texture that is being dropped.  *)
(* The meshes are those of gears and floors, which the main thread makes;  *)
(* meshes from files are in AssetPipeline.  Shaders, which live as long as *)
(* their cache, and bindings are left out.                                 *)
(***************************************************************************)
EXTENDS Naturals, Sequences, SequencesExt, FiniteSets

CONSTANTS
    MaterialPaths, MeshPaths, \* asset paths
    Images,                   \* texture images; an image stands for its hash
    BaseOf, NormalOf,         \* the images of a material, or None
    Refused,                  \* images create_texture throws for
    MaxAssets,                \* bound: materials and meshes at one time
    MaxEntries, MaxHandles,   \* bounds: entries, and handles of one kind, in use
    None, Expired             \* no entry; a weak_ptr whose entry is gone

Entries == 1 .. MaxEntries
Handles == 1 .. MaxHandles
Threads == {"main", "loader"}
Kinds   == {"mesh", "material", "texture"}
Keys(kind) == CASE kind = "mesh" -> MeshPaths
                [] kind = "material" -> MaterialPaths
                [] kind = "texture" -> Images

ASSUME ResourceAssumption ==
    /\ Refused \subseteq Images
    /\ BaseOf \in [MaterialPaths -> Images \cup {None}]
    /\ NormalOf \in [MaterialPaths -> Images \cup {None}]
    /\ {MaxAssets, MaxEntries, MaxHandles} \subseteq Nat
    /\ None \notin Handles \cup Entries \cup Images
    /\ None \notin [base : Handles \cup {None}, normal : Handles \cup {None}]
    /\ Expired \notin Entries \cup {None}

VARIABLES
    entries,   \* MeshEntry, MaterialEntry, TextureEntry
    cache,     \* mesh_cache, material_cache, texture_cache
    pending,   \* MaterialManager::pending_upload
    queue,     \* RenderDevice::deletion_queue
    textures,  \* the rasterizer's textures: the image of each
    materials, \* RenderDevice::materials
    meshes,    \* RenderDevice::meshes
    program,   \* what each thread's destructors still have to do
    pc,        \* where the main thread is in its frame
    batch,     \* the materials it drained
    seen,      \* what it has looked at and still refers to
    opening,   \* it clears the scene in order to load one
    scene,     \* entries the scene's objects refer to
    loader,    \* the scene-load task
    staged     \* entries that the scene it makes refers to

device    == <<queue, textures, materials, meshes>>
sceneVars == <<scene, loader, staged>>
vars == <<entries, cache, pending, device, program, pc, batch, seen, opening,
          sceneVars>>

Free == [kind |-> "free", key |-> None, load |-> "taken", handle |-> None,
         base |-> None, normal |-> None, material |-> None]

-----------------------------------------------------------------------------
(* Faulty variants: each stands for a plausible slip in the code.           *)

\* The textures of a material are dropped before it is deferred.
TexturesFirst(request, drops) == drops \o request

\* An expired entry of the cache is left in place, and emplace() keeps it.
Kept(old, e) == IF old = None THEN e ELSE old

\* An entry whose task failed is put back.
NotLoaded(e) == entries[e].load # "value"

-----------------------------------------------------------------------------
(* References, and what is done when the last one goes.                     *)

Live(kind) == {e \in Entries : entries[e].kind = kind}
Members(e) == {entries[e].base, entries[e].normal, entries[e].material} \ {None}

Drop(e)        == [op |-> "drop", what |-> e]
Defer(kind, h) == [op |-> "defer", what |-> <<kind, h>>]
Drops(S) == LET s == SetToSeq(S) IN [i \in 1 .. Len(s) |-> Drop(s[i])]

\* The references that destructors still hold, given their programs p.
Dropping(p) == {e \in Entries : \E t \in Threads : Contains(p[t], Drop(e))}

Roots == scene \cup staged \cup seen \cup ToSet(batch)
           \cup ToSet(pending)

\* A destructor: its body defers, and then the members go, the last one first.
InOrder(request, drops) == request \o drops

Request(x) == IF x.handle = None THEN <<>> ELSE <<Defer(x.kind, x.handle)>>
Member(m)  == IF m = None THEN <<>> ELSE <<Drop(m)>>

Destructor(e) ==
    LET x == entries[e]
    IN  InOrder(Request(x), Member(x.normal) \o Member(x.base) \o Member(x.material))

\* A thread that runs destructors does nothing else.
Idle(t) == program[t] = <<>>

Releases(t, S) == program' = [program EXCEPT ![t] = Drops(S)]

\* RenderDevice::defer_delete
Defers(t) ==
    /\ ~Idle(t)
    /\ Head(program[t]).op = "defer"
    /\ queue' = Append(queue, Head(program[t]).what)
    /\ program' = [program EXCEPT ![t] = Tail(@)]
    /\ UNCHANGED <<entries, cache, pending, textures, materials, meshes, pc, batch, seen, opening, sceneVars>>

\* A shared_ptr goes.  With the last one the entry goes, and its weak references
\* expire.
DropsReference(t) ==
    LET e    == Head(program[t]).what
        rest == [program EXCEPT ![t] = Tail(@)]
        held == Roots \cup Dropping(rest) \cup UNION {Members(x) : x \in Entries}
    IN  /\ ~Idle(t)
        /\ Head(program[t]).op = "drop"
        /\ IF e \in held
             THEN program' = rest /\ UNCHANGED <<entries, cache>>
             ELSE /\ program' = [rest EXCEPT ![t] = Destructor(e) \o @]
                  /\ entries' = [entries EXCEPT ![e] = Free]
                  /\ cache' = [cache EXCEPT ![entries[e].kind] =
                       [k \in DOMAIN @ |-> IF @[k] = e THEN Expired ELSE @[k]]]
        /\ UNCHANGED <<pending, device, pc, batch, seen, opening, sceneVars>>

-----------------------------------------------------------------------------
(* New entries and handles.                                                 *)

\* MaxEntries and MaxHandles bound what is in use: one that is not must be there.
OneOf(S) == CHOOSE x \in S : TRUE
HasEntry == Live("free") # {}
Unused   == OneOf(Live("free"))
Assets == Cardinality(Live("mesh") \cup Live("material"))

Entry(kind, key, load, handle, material) ==
    [Free EXCEPT !.kind = kind, !.key = key, !.load = load, !.handle = handle,
                 !.material = material]

\* weak_ptr::lock
Lock(kind, key) == cache[kind][key] \in Entries

\* What emplace() leaves in a cache after an expired entry was erased.
Stored(old, e) == e

\* What nothing knows by its handle; next_mesh_handle and next_material_handle only grow.
Unknown(kind, taken) ==
    {h \in Handles \ taken :
       /\ ~Contains(queue, <<kind, h>>)
       /\ \A t \in Threads : ~Contains(program[t], Defer(kind, h))}

\* swr::CreateTexture may return a number that was released.
Released == {h \in Handles : textures[h] = None}
CreateTexture == OneOf(Released)

-----------------------------------------------------------------------------
(* The frame begins with what was deferred.                                 *)

At(step) ==
    /\ pc = step
    /\ Idle("main")

Requested(kind, h) == Contains(queue, <<kind, h>>)

\* delete_texture, delete_material, delete_mesh for every request.
ProcessDeferredDeletions ==
    /\ At("deletions")
    /\ textures' = [h \in Handles |-> IF Requested("texture", h) THEN None ELSE textures[h]]
    /\ materials' = [h \in Handles |->
                       IF Requested("material", h) THEN None ELSE materials[h]]
    /\ meshes' = {h \in meshes : ~Requested("mesh", h)}
    /\ queue' = <<>>
    /\ pc' = "drain"
    /\ UNCHANGED <<entries, cache, pending, program, batch, seen, opening,
                   sceneVars>>

-----------------------------------------------------------------------------
(* MaterialManager::process_pending.                                        *)

Drain ==
    /\ At("drain")
    /\ batch' = pending
    /\ pending' = <<>>
    /\ pc' = "look"
    /\ UNCHANGED <<entries, cache, device, program, seen, opening, sceneVars>>

First == Head(batch)

Looks(step) ==
    /\ At(step)
    /\ batch # <<>>
    /\ UNCHANGED <<opening, sceneVars>>

\* The loop goes on; the drained queue refers to the entry until it ends.
NextEntry ==
    /\ batch' = Tail(batch)
    /\ seen' = seen \cup {First}
    /\ pc' = "look"

StillLoading(e) == entries[e].load = "loading"

Requeue ==
    /\ Looks("look")
    /\ StillLoading(First)
    /\ pending' = Append(pending, First)
    /\ batch' = Tail(batch)
    /\ UNCHANGED <<entries, cache, device, program, pc, seen>>

\* future.get() throws what the task threw.
FinalizeThrows ==
    /\ Looks("look")
    /\ ~StillLoading(First)
    /\ entries[First].load = "error"
    /\ entries' = [entries EXCEPT ![First].load = "taken"]
    /\ NextEntry
    /\ UNCHANGED <<cache, pending, device, program>>

\* MaterialEntry::finalize: the base color, the normal map, the material.
FinalizeMaterial ==
    /\ Looks("look")
    /\ entries[First].load = "value"
    /\ entries' = [entries EXCEPT ![First].load = "taken"]
    /\ pc' = "base"
    /\ UNCHANGED <<cache, pending, device, program, batch, seen>>

With(x, step, texture) ==
    IF step = "base" THEN [x EXCEPT !.base = texture] ELSE [x EXCEPT !.normal = texture]

TextureFound(step, image, next) ==
    /\ Looks(step)
    /\ \/ image = None /\ UNCHANGED entries
       \/ /\ image # None /\ Lock("texture", image)
          /\ entries' = [entries EXCEPT ![First] = With(@, step, cache["texture"][image])]
    /\ pc' = next
    /\ UNCHANGED <<cache, pending, device, program, batch, seen>>

TextureCreated(step, image, next) ==
    /\ Looks(step)
    /\ image \notin Refused \cup {None} /\ ~Lock("texture", image)
    /\ HasEntry /\ Released # {}
    /\ entries' = [entries EXCEPT
                     ![First] = With(@, step, Unused),
                     ![Unused] = Entry("texture", image, "taken", CreateTexture, None)]
    /\ textures' = [textures EXCEPT ![CreateTexture] = image]
    /\ cache' = [cache EXCEPT !["texture"][image] = Stored(@, Unused)]
    /\ pc' = next
    /\ UNCHANGED <<pending, queue, materials, meshes, program, batch, seen>>

\* create_texture throws, and finalize() rolls back.
TextureRefused(step, image) ==
    /\ Looks(step)
    /\ image \in Refused /\ ~Lock("texture", image)
    /\ entries' = [entries EXCEPT ![First].base = None, ![First].normal = None]
    /\ Releases("main", {entries[First].base, entries[First].normal} \ {None})
    /\ cache' = [cache EXCEPT !["texture"][image] = None]
    /\ NextEntry
    /\ UNCHANGED <<pending, device>>

LoadTexture(step, image, next) ==
    \/ TextureFound(step, image, next)
    \/ TextureCreated(step, image, next)
    \/ TextureRefused(step, image)

HandleOf(e) == IF e = None THEN None ELSE entries[e].handle

CreateMaterial ==
    LET known == {x \in Handles : materials[x] # None}
        h     == OneOf(Unknown("material", known))
    IN  /\ Looks("create")
        /\ Unknown("material", known) # {}
        /\ materials' = [materials EXCEPT ![h] = [base   |-> HandleOf(entries[First].base),
                                                  normal |-> HandleOf(entries[First].normal)]]
        /\ entries' = [entries EXCEPT ![First].handle = h]
        /\ NextEntry
        /\ UNCHANGED <<cache, pending, queue, textures, meshes, program>>

BatchDone ==
    /\ At("look")
    /\ batch = <<>>
    /\ Releases("main", seen)
    /\ seen' = {}
    /\ pc' = "dirty"
    /\ UNCHANGED <<entries, cache, pending, device, batch, opening, sceneVars>>

ProcessPending ==
    \/ Drain \/ Requeue \/ FinalizeThrows \/ FinalizeMaterial
    \/ \E m \in MaterialPaths :
         /\ batch # <<>>
         /\ entries[First].key = m
         /\ \/ LoadTexture("base", BaseOf[m], "normal")
            \/ LoadTexture("normal", NormalOf[m], "create")
    \/ CreateMaterial \/ BatchDone

-----------------------------------------------------------------------------
(* The rest of the frame.                                                   *)

\* MeshManager::reload_sync for a gear or floor that is dirty, with the material
\* m.  The object's last mesh goes, unless another object has it too.
Regenerate(g, m) ==
    LET h == OneOf(Unknown("mesh", meshes))
        old == {e \in scene : entries[e].key = g}
    IN  /\ At("dirty")
        /\ Assets < MaxAssets /\ HasEntry /\ Unknown("mesh", meshes) # {}
        /\ entries' = [entries EXCEPT ![Unused] = Entry("mesh", g, "taken", h, m)]
        /\ meshes' = meshes \cup {h}
        /\ cache' = [cache EXCEPT !["mesh"][g] = Unused]
        /\ \/ scene' = (scene \ old) \cup {Unused} /\ Releases("main", old)
           \/ old # {} /\ scene' = scene \cup {Unused} /\ UNCHANGED program
        /\ pc' = "swap"
        /\ UNCHANGED <<pending, queue, textures, materials, batch, seen, opening,
                       loader, staged>>

ProcessDirtyMeshes ==
    \/ \E g \in MeshPaths, m \in scene \cap Live("material") : Regenerate(g, m)
    \/ /\ At("dirty")
       /\ pc' = "swap"
       /\ UNCHANGED <<entries, cache, pending, device, program, batch, seen,
                      opening, sceneVars>>

\* update_scene_load_task
UpdateSceneLoad ==
    /\ At("swap")
    /\ IF loader = "ready"
         THEN /\ scene' = staged
              /\ staged' = {}
              /\ loader' = "none"
              /\ Releases("main", scene)
         ELSE UNCHANGED <<sceneVars, program>>
    /\ pc' = "menu"
    /\ UNCHANGED <<entries, cache, pending, device, batch, seen, opening>>

\* Nothing, new_scene, or load_scene, which first ends the load before.
Menu ==
    /\ At("menu")
    /\ \/ pc' \in {"deletions", "destroy"} /\ UNCHANGED opening
       \/ pc' = "wait" /\ opening' = TRUE
    /\ UNCHANGED <<entries, cache, pending, device, program, batch, seen, sceneVars>>

WaitForLoader ==
    /\ At("wait")
    /\ loader \in {"none", "ready"} /\ Idle("loader")
    /\ Releases("main", staged)
    /\ staged' = {}
    /\ loader' = "none"
    /\ pc' = "destroy"
    /\ UNCHANGED <<entries, cache, pending, device, batch, seen, opening, scene>>

DestroyScene ==
    /\ At("destroy")
    /\ Releases("main", scene)
    /\ scene' = {}
    /\ pc' = "prune"
    /\ UNCHANGED <<entries, cache, pending, device, batch, seen, opening, loader,
                   staged>>

\* MaterialManager::prune, TextureCache::prune; MeshManager::clear.
Prune ==
    /\ At("prune")
    /\ cache' = [k \in Kinds |-> [p \in Keys(k) |->
                   IF k = "mesh" \/ cache[k][p] = Expired THEN None ELSE cache[k][p]]]
    /\ loader' = IF opening THEN "loading" ELSE loader
    /\ opening' = FALSE
    /\ pc' = "deletions"
    /\ UNCHANGED <<entries, pending, device, program, batch, seen, scene, staged>>

Frame ==
    \/ ProcessDeferredDeletions \/ ProcessPending \/ ProcessDirtyMeshes
    \/ UpdateSceneLoad \/ Menu \/ WaitForLoader \/ DestroyScene \/ Prune

-----------------------------------------------------------------------------
(* The scene-load task, and the tasks of the loads.                         *)

Resolving ==
    /\ loader = "loading"
    /\ Idle("loader")
    /\ UNCHANGED <<device, program, pc, batch, seen, opening, scene, loader>>

\* MaterialManager::load
Load(p) ==
    /\ Resolving
    /\ \/ /\ Lock("material", p)
          /\ staged' = staged \cup {cache["material"][p]}
          /\ UNCHANGED <<entries, cache, pending>>
       \/ /\ ~Lock("material", p)
          /\ Assets < MaxAssets /\ HasEntry
          /\ entries' = [entries EXCEPT ![Unused] = Entry("material", p, "loading", None, None)]
          /\ cache' = [cache EXCEPT !["material"][p] = Unused]
          /\ pending' = Append(pending, Unused)
          /\ staged' = staged \cup {Unused}

\* The task throws, was cancelled, or returns its scene.
LoaderEnds ==
    /\ loader = "loading"
    /\ Idle("loader")
    /\ \/ loader' = "none" /\ staged' = {} /\ Releases("loader", staged)
       \/ loader' = "ready" /\ UNCHANGED <<staged, program>>
    /\ UNCHANGED <<entries, cache, pending, device, pc, batch, seen, opening, scene>>

LoadEnds(e) ==
    /\ entries[e].load = "loading"
    /\ \E result \in {"value", "error"} :
         entries' = [entries EXCEPT ![e].load = result]
    /\ UNCHANGED <<cache, pending, device, program, pc, batch, seen, opening,
                   sceneVars>>

-----------------------------------------------------------------------------
Init ==
    /\ entries = [e \in Entries |-> Free]
    /\ cache = [k \in Kinds |-> [p \in Keys(k) |-> None]]
    /\ pending = <<>>
    /\ queue = <<>>
    /\ textures = [h \in Handles |-> None]
    /\ materials = [h \in Handles |-> None]
    /\ meshes = {}
    /\ program = [t \in Threads |-> <<>>]
    /\ pc = "wait" /\ batch = <<>> /\ seen = {} /\ opening = TRUE
    /\ scene = {} /\ loader = "none" /\ staged = {}

Destructors(t) == Defers(t) \/ DropsReference(t)

Next ==
    \/ Frame \/ LoaderEnds
    \/ \E p \in MaterialPaths : Load(p)
    \/ \E t \in Threads : Destructors(t)
    \/ \E e \in Entries : LoadEnds(e)

\* The frames go on; tasks end.
Fairness ==
    /\ WF_vars(Frame)
    /\ WF_vars(LoaderEnds)
    /\ \A t \in Threads : WF_vars(Destructors(t))
    /\ \A e \in Entries : WF_vars(LoadEnds(e))

Spec == Init /\ [][Next]_vars /\ Fairness

-----------------------------------------------------------------------------
(* Properties.                                                              *)

\* Every variable holds a value of its type, and no cache, queue, entry or scene
\* refers to an entry that is gone.
TypeOK ==
    LET known(kind) == Live(kind) \cup {None}
    IN  /\ \A e \in Entries :
             /\ entries[e].kind \in Kinds \cup {"free"}
             /\ entries[e].load \in {"loading", "value", "error", "taken"}
             /\ entries[e].handle \in Handles \cup {None}
             /\ {entries[e].base, entries[e].normal} \subseteq known("texture")
             /\ entries[e].material \in known("material")
        /\ \A k \in Kinds : \A p \in Keys(k) : cache[k][p] \in known(k) \cup {Expired}
        /\ ToSet(pending) \subseteq Live("material")
        /\ Roots \cup Dropping(program) \subseteq Live("mesh") \cup Live("material")
                                                    \cup Live("texture")
        /\ queue \in Seq(Kinds \X Handles)
        /\ textures \in [Handles -> Images \cup {None}]
        /\ meshes \subseteq Handles
        /\ pc \in {"deletions", "drain", "look", "base", "normal", "create", "dirty", "swap",
                   "menu", "wait", "destroy", "prune"}
        /\ opening \in BOOLEAN
        /\ loader \in {"none", "loading", "ready"}

\* Who will see to it that a device object is deleted: the entry that owns it, a
\* destructor about to defer it, or a request in the queue.
Owners(kind, h) ==
    {<<"entry", e>> : e \in {x \in Live(kind) : entries[x].handle = h}}
      \cup {<<"queue", i>> : i \in {j \in 1 .. Len(queue) : queue[j] = <<kind, h>>}}
      \cup UNION {{<<t, i>> : i \in {j \in 1 .. Len(program[t]) :
                                       program[t][j] = Defer(kind, h)}} : t \in Threads}

Exists(kind, h) == CASE kind = "mesh" -> h \in meshes
                     [] kind = "material" -> materials[h] # None
                     [] kind = "texture" -> textures[h] # None

\* Whatever threads drop references in whatever order, and wherever an upload
\* fails, each object of the device has exactly one owner, so it is neither leaked
\* nor deleted twice (~MaterialEntry, ~TextureEntry, ~MeshEntry, rollback).
OneOwner ==
    \A kind \in Kinds : \A h \in Handles :
        Cardinality(Owners(kind, h)) = IF Exists(kind, h) THEN 1 ELSE 0

\* A material the device knows is bound with the textures it was made with: they
\* are not deleted, and their numbers not used for other images, before it is
\* (bind_material reads the numbers without asking).
TexturesOutliveMaterials ==
    /\ \A h \in Handles : materials[h] # None =>
         \A t \in {materials[h].base, materials[h].normal} \ {None} : textures[t] # None
    /\ \A e \in Live("material") : entries[e].handle # None =>
         LET m == materials[entries[e].handle]
         IN  /\ m.base   # None => textures[m.base] = BaseOf[entries[e].key]
             /\ m.normal # None => textures[m.normal] = NormalOf[entries[e].key]

\* Materials with the same image share one texture entry, also when the image was
\* dropped and loaded again before the old texture was deleted (TextureCache::load).
OneTexturePerImage ==
    \A x, y \in Live("texture") : entries[x].key = entries[y].key => x = y

\* Nothing is there twice: neither two owners of a device object nor two textures of an
\* image (the destructors of the entries, TextureCache::load).
NothingTwice == TypeOK /\ OneOwner /\ OneTexturePerImage

\* What nothing refers to any more goes: once there is no scene, and none being
\* loaded, the device is empty in the end and stays so (process_pending gives
\* entries up, process_deferred_deletions runs in every frame).
Reclaimed ==
    <>[](scene = {} /\ staged = {} /\ loader = "none")
      => <>[](\A kind \in Kinds : Live(kind) = {} /\ \A h \in Handles : ~Exists(kind, h))

-----------------------------------------------------------------------------
(* The inductive invariant behind the theorems of RenderResourcesProofs.    *)

Paths == MeshPaths \cup MaterialPaths \cup Images
Loads == {"loading", "value", "error", "taken"}
Record == [kind : Kinds \cup {"free"}, key : Paths \cup {None}, load : Loads,
           handle : Handles \cup {None}, base : Entries \cup {None},
           normal : Entries \cup {None}, material : Entries \cup {None}]
Orders == [op : {"drop"}, what : Entries] \cup [op : {"defer"}, what : Kinds \X Handles]
Bound  == [base : Handles \cup {None}, normal : Handles \cup {None}]

Typed ==
    /\ entries \in [Entries -> Record]
    /\ DOMAIN cache = Kinds
    /\ \A k \in Kinds : cache[k] \in [Keys(k) -> Entries \cup {None, Expired}]
    /\ pending \in Seq(Entries) /\ batch \in Seq(Entries)
    /\ seen \cup scene \cup staged \subseteq Entries
    /\ program \in [Threads -> Seq(Orders)]
    /\ queue \in Seq(Kinds \X Handles)
    /\ textures \in [Handles -> Images \cup {None}]
    /\ materials \in [Handles -> Bound \cup {None}]
    /\ meshes \subseteq Handles
    /\ pc \in {"deletions", "drain", "look", "base", "normal", "create", "dirty", "swap",
               "menu", "wait", "destroy", "prune"}
    /\ opening \in BOOLEAN
    /\ loader \in {"none", "loading", "ready"}

\* Nothing refers to an entry that is gone.
References ==
    /\ \A e \in Entries :
         /\ {entries[e].base, entries[e].normal} \subseteq Live("texture") \cup {None}
         /\ entries[e].material \in Live("material") \cup {None}
    /\ \A k \in Kinds : \A p \in Keys(k) : cache[k][p] \in Live(k) \cup {None, Expired}
    /\ ToSet(pending) \cup ToSet(batch) \subseteq Live("material")
    /\ (Roots \cup Dropping(program)) \cap Live("free") = {}

Owns(es, e, kind, h) == es[e].kind = kind /\ es[e].handle = h
Asks(p, t, kind, h)  == p[t] # <<>> /\ Head(p[t]) = Defer(kind, h)

\* A destructor defers first.
DefersFirst == \A t \in Threads : \A i \in 2 .. Len(program[t]) : program[t][i].op = "drop"

\* A device object is in the hands of an entry, of a destructor or of the queue.
Owned ==
    /\ \A kind \in Kinds : \A h \in Handles :
         /\ Exists(kind, h) <=> \/ \E e \in Entries : Owns(entries, e, kind, h)
                                \/ \E t \in Threads : Asks(program, t, kind, h)
                                \/ Requested(kind, h)
         /\ \A e, f \in Entries : Owns(entries, e, kind, h) /\ Owns(entries, f, kind, h) => e = f
         /\ \A t, u \in Threads : Asks(program, t, kind, h) /\ Asks(program, u, kind, h) => t = u
         /\ \A e \in Entries : Owns(entries, e, kind, h) =>
              ~Requested(kind, h) /\ \A t \in Threads : ~Asks(program, t, kind, h)
         /\ \A t \in Threads : Asks(program, t, kind, h) => ~Requested(kind, h)
    /\ \A i, j \in 1 .. Len(queue) : queue[i] = queue[j] => i = j

\* The texture cache knows every texture entry, by the image that the device has.
TexturesCached ==
    /\ \A x \in Live("texture") :
         /\ entries[x].key \in Images
         /\ cache["texture"][entries[x].key] = x
         /\ \A h \in Handles : entries[x].handle = h => textures[h] = entries[x].key
    /\ \A i \in Images :
         cache["texture"][i] \in Entries => entries[cache["texture"][i]].key = i

\* A material entry has the textures of its material, and so has the device once it has
\* been told; until then nobody else is about to upload it.
MaterialsUploaded ==
    /\ \A e \in Live("material") :
         LET x == entries[e]
         IN  /\ x.base # None => entries[x.base].key = BaseOf[x.key]
             /\ x.normal # None => entries[x.normal].key = NormalOf[x.key]
             /\ x.handle # None => /\ x.load = "taken"
                                   /\ materials[x.handle] = [base |-> HandleOf(x.base),
                                                             normal |-> HandleOf(x.normal)]
    /\ pc \in {"base", "normal", "create"} =>
         batch # <<>> /\ entries[First].load = "taken" /\ entries[First].handle = None

\* What a material is bound with is there; a destructor that is about to defer the material
\* still refers to the textures.
Bindings(h) == {materials[h].base, materials[h].normal} \ {None}

TexturesHeld ==
    \A h \in Handles : materials[h] # None =>
      \A n \in Bindings(h) :
        /\ textures[n] # None
        /\ \A t \in Threads : Asks(program, t, "material", h) =>
             \E x \in Live("texture") :
               entries[x].handle = n /\ Contains(program[t], Drop(x))

ResourceInv == /\ Typed /\ References /\ DefersFirst /\ Owned /\ TexturesCached
               /\ MaterialsUploaded /\ TexturesHeld

=============================================================================

------------------------------ MODULE Renderer ------------------------------
(***************************************************************************)
(* The presentation run: one host thread that owns a window, a device and  *)
(* everything made from them, beside a GPU that completes the acquisition, *)
(* the rendering and the presentation of a frame whenever it likes.  The   *)
(* window may be resized, minimized or closed, the swapchain may be out of *)
(* date, every call may fail and every fence wait may run out.             *)
(* Source: src/src/render_vulkan.cpp, with the budgets of presentation.cpp.*)
(*                                                                         *)
(* Data abstractions.  An extent is its number of pixels, 0 when the       *)
(* window has none.  A packet is the revision it shows.  The GPU reads the *)
(* mesh buffers and fills the readback buffers when it completes.  Which   *)
(* error a call reports is left out: a run has passed or it has not.       *)
(***************************************************************************)
EXTENDS Integers, Sequences, Functions

CONSTANTS
  Extents,          \* extents a window may have
  MaxPixels,        \* checked_pixel_count
  MaxBytes,         \* allocation_fits, in pixels of four bytes
  Padding,          \* what a memory requirement adds to the bytes asked for
  MaxFrames,        \* max_frames_
  InitialRevision,  \* LiveConfig::initial_revision
  FinalRevision,    \* LiveConfig::final_revision
  MaxRevision,      \* bound on the revisions published to a live run
  MaxChanges,       \* bound on resizes, minimizes, restores and late swapchains
  Modes             \* kinds of run explored

ASSUME RendererAssumption ==
  /\ Extents \subseteq Nat \ {0}
  /\ MaxPixels \in Nat /\ MaxBytes \in Nat /\ Padding \in Nat
  /\ MaxFrames \in Nat /\ MaxChanges \in Nat /\ MaxRevision \in Nat
  /\ InitialRevision \in Nat \ {0} /\ FinalRevision \in Nat
  /\ InitialRevision < FinalRevision
  /\ Modes \subseteq {"scripted", "interactive", "live"}

-----------------------------------------------------------------------------
(* What the run owns.                                                      *)

Buffer(b) == <<[of |-> b, part |-> "object"], [of |-> b, part |-> "memory"]>>
Image(i) == Buffer(i) \o <<[of |-> i, part |-> "view"]>>
One(o) == <<[of |-> o, part |-> "object"]>>

\* initialize_capacity makes these, in this order.
SetUp == One("sdl") \o One("window") \o One("instance") \o One("messenger") \o One("surface")
           \o One("device") \o One("command_pool") \o One("rendered") \o One("acquire_fence")
           \o One("graphics_fence") \o One("present_fence") \o Buffer("vertices") \o Buffer("indices")

\* recreate and pipeline make these for one extent.
BuildUp == One("swapchain") \o Image("color") \o Image("ids") \o Image("depth")
             \o Buffer("color_read") \o Buffer("id_read") \o Buffer("depth_read")
             \o One("render_pass") \o One("framebuffer") \o One("vertex_shader")
             \o One("fragment_shader") \o One("pipeline_layout") \o One("pipeline")

FreeImage(i) == <<[of |-> i, part |-> "view"]>> \o Buffer(i)

\* Mutated form of RetireOrder: the pipeline's layout is forgotten.
RetireOrderLeaking == One("pipeline") \o One("vertex_shader")
                 \o One("fragment_shader") \o One("framebuffer") \o One("render_pass")
                 \o FreeImage("color") \o FreeImage("ids") \o FreeImage("depth")
                 \o Buffer("color_read") \o Buffer("id_read") \o Buffer("depth_read")
                 \o One("swapchain")

\* retire_swapchain destroys in this order.
RetireOrder == One("pipeline") \o One("pipeline_layout") \o One("vertex_shader")
                 \o One("fragment_shader") \o One("framebuffer") \o One("render_pass")
                 \o FreeImage("color") \o FreeImage("ids") \o FreeImage("depth")
                 \o Buffer("color_read") \o Buffer("id_read") \o Buffer("depth_read")
                 \o One("swapchain")

\* cleanup, after retire_swapchain.
TeardownOrder == Buffer("vertices") \o Buffer("indices") \o One("rendered")
                   \o One("graphics_fence") \o One("present_fence") \o One("acquire_fence")
                   \o One("command_pool") \o One("device") \o One("surface") \o One("messenger")
                   \o One("instance") \o One("window") \o One("sdl")

Elements(s) == {s[i] : i \in DOMAIN s}
Objects == Elements(SetUp) \cup Elements(BuildUp)
Swapped == Elements(BuildUp)
Memories == {o \in Objects : o.part = "memory"}
Obj(o) == [of |-> o, part |-> "object"]

\* Which objects are made from which, by their names.
MadeFrom ==
  {<<"window", "sdl">>, <<"instance", "window">>, <<"messenger", "instance">>,
   <<"device", "instance">>, <<"surface", "instance">>, <<"surface", "window">>,
   <<"swapchain", "surface">>, <<"framebuffer", "render_pass">>,
   <<"pipeline", "pipeline_layout">>, <<"pipeline", "render_pass">>}
  \cup ({"command_pool", "rendered", "acquire_fence", "graphics_fence", "present_fence",
         "vertices", "indices"} \cup {o.of : o \in Swapped}) \X {"device"}

\* What an object is made from, and must not outlive.
Parents ==
  [o \in Objects |->
    {Obj(e[2]) : e \in {e \in MadeFrom : e[1] = o.of}}
    \cup {[of |-> i, part |-> "view"] : i \in {i \in {"color", "ids", "depth"} : o.of = "framebuffer"}}
    \cup {Obj(i) : i \in {i \in {o.of} : o.part = "view"}}]

Fences == {"acquire", "graphics", "present"}

\* What the GPU uses until it has completed.
Uses(f) ==
  CASE f = "acquire" -> {o \in Objects : o.of \in {"device", "swapchain", "acquire_fence"}}
    [] f = "present" ->
         {o \in Objects : o.of \in {"device", "swapchain", "rendered", "present_fence"}}
    [] f = "graphics" ->
         {o \in Objects : \/ o \in Swapped /\ o.of \notin {"vertex_shader", "fragment_shader"}
                          \/ o.of \in {"device", "command_pool", "rendered", "graphics_fence",
                                       "vertices", "indices"}}

VARIABLES
  mode,        \* the kind of run: execute, with interactive, or execute_live
  at, then,    \* where the host stands; where recreate returns to
  todo,        \* objects still to make or destroy, in order
  live,        \* the objects that exist
  size,        \* the size of each object's memory, 0 without
  allocated,   \* allocated_
  extent,      \* extent_
  serial,      \* serial_ and frame_count_
  pending,     \* acquire_pending_, graphics_pending_, present_pending_
  flying,      \* what the GPU has not completed
  mesh,        \* the packet in the mesh buffers
  readback,    \* the packet the readback buffers show
  visible,     \* the last packet whose presentation has completed
  window,      \* the window, as the last pump saw it
  changes,     \* window changes and late swapchains so far
  late,        \* the 30-second deadline has passed
  step,        \* the step of execute's script; the live run's captures
  seen,        \* window events since the last request
  job,         \* the arguments of the draw in progress
  frames,      \* result_.frames
  published,   \* the revision callbacks.latest returns
  stop,        \* callbacks.should_stop
  reported,    \* the revision of the last callbacks.presented
  passed       \* the run has completed its work

gpu == <<pending, flying, mesh, readback, visible>>
owned == <<todo, live, size, allocated>>
around == <<window, changes, late, seen, published, stop>>
run == <<mode, step, job, frames, reported, passed>>
vars == <<mode, at, then, todo, live, size, allocated, extent, serial, pending,
          flying, mesh, readback, visible, window, changes, late, step, seen, job, frames,
          published, stop, reported, passed>>

Windows == [extent : Extents \cup {0}, minimized : BOOLEAN, closed : BOOLEAN]
NoJob == [packet |-> 0, phase |-> "", retain |-> FALSE]

Init ==
  /\ mode \in Modes
  /\ at = "construct" /\ then = "recreate"
  /\ todo = SetUp /\ live = {} /\ size = [m \in Memories |-> 0] /\ allocated = 0
  /\ extent = 0 /\ serial = 0
  /\ pending = {} /\ flying = {}
  /\ mesh = 0 /\ readback = 0 /\ visible = 0
  /\ window \in [extent : Extents \cup {0}, minimized : {FALSE}, closed : {FALSE}]
  /\ changes = 0 /\ late = FALSE
  /\ step = 1 /\ seen = {} /\ job = NoJob /\ frames = <<>>
  /\ published = 0 /\ stop = FALSE /\ reported = 0 /\ passed = FALSE

-----------------------------------------------------------------------------
(* The script of execute                                                   *)

Shot(packet, phase, retain) ==
  [kind |-> "shot", job |-> [packet |-> packet, phase |-> phase, retain |-> retain]]
Request(event) == [kind |-> event, job |-> NoJob]

\* What execute does, one step after the other, up to the interactive loop or
\* the last draw.
Script ==
  <<Shot(InitialRevision, "initial", TRUE), Shot(FinalRevision, "transformed", TRUE),
    Shot(FinalRevision, "", FALSE), Request("resized"), Shot(FinalRevision, "resized", TRUE),
    Request("minimized"), Request("restored"), Shot(FinalRevision, "restored", TRUE),
    Shot(FinalRevision, "", FALSE)>>

Scripted == mode # "live" /\ step <= Len(Script) /\ (mode = "interactive" => step < Len(Script))

\* interactive_, which execute sets after its script.
Browsing == mode = "interactive" /\ step = Len(Script)

-----------------------------------------------------------------------------
(* wait_work, at every place the host calls it                             *)

Waiting == {"recreate", "sized", "acquired", "capture", "completed", "cleanup"}

\* The fences wait_work looks at before f.
Before(f) == CASE f = "acquire" -> {} [] f = "graphics" -> {"acquire"}
               [] f = "present" -> {"acquire", "graphics"}

\* A fence has signaled: its operation is no longer pending.
WaitFor(f) ==
  /\ at \in Waiting
  /\ f \in pending /\ Before(f) \cap pending = {}
  /\ f \notin flying
  /\ pending' = pending \ {f}
  /\ UNCHANGED <<at, then, owned, extent, serial, flying, mesh, readback, visible, around, run>>

\* Mutated form of Worked: the wait is forgotten.
WorkedAnyway == TRUE

Worked == pending = {}

-----------------------------------------------------------------------------
(* initialize_capacity, recreate and retire_swapchain                      *)

\* make_buffer and make_image ask for these bytes, and get these.
Bytes(o) == (IF o \in Swapped THEN extent ELSE 1) + Padding

AllocationFits(bytes) == allocated + bytes <= MaxBytes

\* The next objects are made: all of them, or those before the call that fails.
\* Memory is counted once it is allocated.
Make ==
  /\ at = "construct"
  /\ \E n \in 1 .. Len(todo) :
       LET made == {todo[i] : i \in 1 .. n}
           bytes == SumFunctionOnSet([m \in Memories |-> Bytes(m)], made \cap Memories)
       IN /\ AllocationFits(bytes)
          /\ live' = live \cup made
          /\ size' = [m \in Memories |-> IF m \in made THEN Bytes(m) ELSE size[m]]
          /\ allocated' = allocated + bytes
          /\ at' = IF n = Len(todo) THEN then ELSE "cleanup"
          /\ then' = IF then = "recreate" THEN "ready" ELSE then
  /\ todo' = <<>>
  /\ UNCHANGED <<extent, serial, gpu, around, run>>

\* A window without pixels leaves the swapchain as it is; otherwise the old one
\* is retired and the new one built for the window's extent.
Recreate ==
  /\ at = "recreate" /\ Worked
  /\ \/ /\ window.extent = 0 \/ window.minimized
        /\ at' = then
        /\ UNCHANGED <<todo, extent>>
     \/ /\ window.extent \in 1 .. MaxPixels /\ ~window.minimized
        /\ extent' = window.extent
        /\ at' = "retire" /\ todo' = RetireOrder
  /\ UNCHANGED <<then, live, size, allocated, serial, gpu, around, run>>

\* free_image and free_buffer return what the allocation took.
Freed(gone) ==
  /\ size' = [m \in Memories |-> IF m \in gone THEN 0 ELSE size[m]]
  /\ allocated' = allocated - SumFunctionOnSet(size, Memories \cap gone)

\* Everything in todo that exists is destroyed, in its order.
Destroy ==
  /\ at \in {"retire", "teardown"}
  /\ live' = live \ Elements(todo)
  /\ Freed(Elements(todo))
  /\ \/ at = "retire" /\ at' = "construct" /\ todo' = BuildUp
     \/ at = "teardown" /\ at' = "gone" /\ todo' = <<>>
  /\ UNCHANGED <<then, extent, serial, gpu, around, run>>

-----------------------------------------------------------------------------
(* The window and draw                                                     *)

Events(w) ==
  (IF w.extent # window.extent THEN {"resized"} ELSE {})
  \cup (IF w.minimized /\ ~window.minimized THEN {"minimized"} ELSE {})
  \cup (IF ~w.minimized /\ window.minimized THEN {"restored"} ELSE {})

\* pump finds the window as w; it changes at no other moment.
Pump(w) ==
  /\ w \in Windows /\ (window.closed => w.closed)
  /\ changes' = changes + IF [w EXCEPT !.closed = window.closed] = window THEN 0 ELSE 1
  /\ changes' <= MaxChanges
  /\ window' = w
  /\ seen' = IF at = "await" THEN seen \cup Events(w) ELSE seen

\* Mutated form of InTime: the deadline is never looked at.
InTimeUnchecked == TRUE

InTime == late => Browsing

\* draw, up to its wait: nothing is drawn in a window without pixels.
Draw ==
  /\ at = "draw" /\ InTime
  /\ \E w \in Windows :
       /\ Pump(w) /\ ~w.closed
       /\ \/ (w.minimized \/ w.extent = 0) /\ at' = "undrawn"
          \/ ~w.minimized /\ w.extent \in 1 .. MaxPixels /\ at' = "sized"
  /\ UNCHANGED <<then, owned, extent, serial, gpu, late, published, stop, run>>

Sized ==
  /\ at = "sized" /\ Worked
  /\ at' = IF window.extent # extent \/ Obj("swapchain") \notin live THEN "recreate" ELSE "acquire"
  /\ then' = "acquire"
  /\ UNCHANGED <<owned, extent, serial, gpu, around, run>>

Acquire ==
  /\ at = "acquire" /\ (Browsing \/ serial < MaxFrames)
  /\ pending' = pending \cup {"acquire"} /\ flying' = flying \cup {"acquire"}
  /\ at' = "acquired"
  /\ UNCHANGED <<then, owned, extent, serial, mesh, readback, visible, around, run>>

\* No image within the timeout, or the swapchain no longer fits the surface.
AcquireNothing ==
  /\ at = "acquire" /\ (Browsing \/ serial < MaxFrames)
  /\ changes < MaxChanges /\ changes' = changes + 1
  /\ at' \in {"undrawn", "recreate"} /\ then' = "undrawn"
  /\ UNCHANGED <<owned, extent, serial, gpu, window, late, seen, published, stop, run>>

\* The packet is copied into the mesh buffers and the commands are recorded.
Upload ==
  /\ at = "acquired" /\ Worked
  /\ mesh' = job.packet
  /\ at' = "submit"
  /\ UNCHANGED <<then, owned, extent, serial, pending, flying, readback, visible, around, run>>

Submit ==
  /\ at = "submit" /\ at' = "present"
  /\ pending' = pending \cup {"graphics"} /\ flying' = flying \cup {"graphics"}
  /\ serial' = serial + 1
  /\ UNCHANGED <<then, owned, extent, mesh, readback, visible, around, run>>

\* The present is queued, whether or not it will show anything.
Queued ==
  /\ pending' = pending \cup {"present"} /\ flying' = flying \cup {"present"}

Present ==
  /\ at = "present"
  /\ \/ /\ Queued
        /\ at' = IF job.retain THEN "capture" ELSE "drawn"
        /\ UNCHANGED <<then, changes>>
     \/ /\ Queued
        /\ changes < MaxChanges /\ changes' = changes + 1
        /\ at' = "recreate" /\ then' = "undrawn"
     \/ /\ Queued
        /\ at' = "cleanup" /\ UNCHANGED <<then, changes>>
  /\ UNCHANGED <<owned, extent, serial, mesh, readback, visible,
                 window, late, seen, published, stop, run>>

\* Mutated form of Capture: the readback buffers are copied at once.
CaptureAtOnce ==
  /\ at = "capture"
  /\ frames' = Append(frames, [phase |-> job.phase, packet |-> job.packet,
                               shows |-> readback])
  /\ at' = "drawn"
  /\ UNCHANGED <<then, owned, extent, serial, gpu, around, mode, step, job, reported, passed>>

\* capture: wait for the frame, then copy the readback buffers.
Capture ==
  /\ at = "capture" /\ Worked
  /\ frames' = Append(frames, [phase |-> job.phase, packet |-> job.packet,
                               shows |-> readback])
  /\ at' = "drawn"
  /\ UNCHANGED <<then, owned, extent, serial, gpu, around, mode, step, job, reported, passed>>

\* The GPU completes an operation; a present waits for its rendering.
Complete(f) ==
  /\ f \in flying
  /\ f = "present" => "graphics" \notin flying
  /\ flying' = flying \ {f}
  /\ readback' = IF f = "graphics" THEN mesh ELSE readback
  /\ visible' = IF f = "present" THEN readback ELSE visible
  /\ UNCHANGED <<at, then, owned, extent, serial, pending, mesh, around, run>>

-----------------------------------------------------------------------------
(* execute: four captures around a resize and a minimize                   *)

NextStep ==
  /\ at = "ready" /\ Scripted
  /\ job' = Script[step].job
  /\ seen' = {}
  /\ at' = IF Script[step].kind = "shot" THEN "draw" ELSE "await"
  /\ UNCHANGED <<then, owned, extent, serial, gpu, window, changes, late, published, stop,
                 mode, step, frames, reported, passed>>

\* present_until draws until it has drawn.
Retry ==
  /\ at = "undrawn"
  /\ at' = IF Scripted THEN "draw" ELSE "ready"
  /\ UNCHANGED <<then, owned, extent, serial, gpu, around, run>>

\* wait_event: until the window system has done what was asked, and no longer
\* than the deadline.  A resize is followed by recreate.
Await ==
  /\ at = "await" /\ InTime
  /\ \E w \in Windows :
       /\ Pump(w) /\ ~w.closed
       /\ LET event == Script[step].kind
              observed == event \in seen' /\ w.minimized = (event = "minimized")
          IN \/ ~observed /\ at' = "await" /\ UNCHANGED then
             \/ observed /\ event # "resized" /\ at' = "drawn" /\ UNCHANGED then
             \/ observed /\ event = "resized" /\ w.extent # extent
                /\ at' = "recreate" /\ then' = "drawn"
  /\ UNCHANGED <<owned, extent, serial, gpu, late, published, stop, run>>

\* The step is done; a live draw waits once more before it is reported.
Drawn ==
  /\ at = "drawn"
  /\ at' = IF mode = "live" THEN "completed" ELSE "ready"
  /\ step' = IF Scripted THEN step + 1 ELSE step
  /\ UNCHANGED <<then, owned, extent, serial, gpu, around, mode, job, frames, reported, passed>>

\* The interactive loop, until the window is closed.
Browse ==
  /\ at = "ready" /\ Browsing
  /\ \E w \in Windows :
       /\ Pump(w)
       /\ \/ w.closed /\ at' = "cleanup" /\ passed' = TRUE /\ UNCHANGED job
          \/ /\ ~w.closed /\ ~w.minimized /\ serial < MaxFrames
             /\ job' = Script[step].job /\ at' = "draw" /\ UNCHANGED passed
  /\ UNCHANGED <<then, owned, extent, serial, gpu, late, published, stop,
                 mode, step, frames, reported>>

Finish ==
  /\ at = "ready" /\ mode = "scripted" /\ ~Scripted
  /\ at' = "cleanup" /\ passed' = TRUE
  /\ UNCHANGED <<then, owned, extent, serial, gpu, around, mode, step, job, frames, reported>>

-----------------------------------------------------------------------------
(* execute_live: present what the owner publishes; step is 1 until the     *)
(* initial revision is captured, 2 until the final one is.                 *)

Phase(revision) ==
  IF step = 1 /\ revision = InitialRevision THEN "initial"
  ELSE IF step = 2 /\ revision = FinalRevision THEN "final" ELSE ""

LiveTurn ==
  /\ at = "ready" /\ mode = "live" /\ ~stop /\ InTime
  /\ step = 1 => published <= InitialRevision
  /\ \E w \in Windows :
       /\ Pump(w) /\ ~w.closed
       /\ \/ w.minimized /\ UNCHANGED <<at, job>>
          \/ /\ ~w.minimized /\ at' = "draw"
             /\ job' = [packet |-> published, phase |-> Phase(published),
                        retain |-> Phase(published) # ""]
  /\ UNCHANGED <<then, owned, extent, serial, gpu, late, published, stop,
                 mode, step, frames, reported, passed>>

\* The owner stops, or the window closes, which it may do at any time: both
\* captures must be there.
LiveEnd ==
  /\ at = "ready" /\ mode = "live" /\ step = 3
  /\ at' = "cleanup" /\ passed' = TRUE
  /\ UNCHANGED <<then, owned, extent, serial, gpu, around, mode, step, job, frames, reported>>

\* Mutated form of Report: a queued present is enough.
ReportQueued ==
  /\ at = "completed"
  /\ step' = IF job.phase = "" THEN step ELSE step + 1
  /\ reported' = job.packet
  /\ at' = "ready"
  /\ UNCHANGED <<then, owned, extent, serial, gpu, around, mode, job, frames, passed>>

\* Graphics and present are complete: the progress is reported.
Report ==
  /\ at = "completed" /\ Worked
  /\ step' = IF job.phase = "" THEN step ELSE step + 1
  /\ reported' = job.packet
  /\ at' = "ready"
  /\ UNCHANGED <<then, owned, extent, serial, gpu, around, mode, job, frames, passed>>

-----------------------------------------------------------------------------
(* Failure and cleanup                                                     *)

\* A call fails, a fence is not signaled in time or the device is lost, a
\* deadline or a budget is exceeded, the window is closed: the exception leaves
\* the run for cleanup.
Fails ==
  /\ at \in {"construct", "recreate", "draw", "sized", "acquire", "acquired", "submit",
             "present", "capture", "completed", "await", "ready"}
  /\ at' = "cleanup" /\ todo' = <<>>
  /\ UNCHANGED <<then, live, size, allocated, extent, serial, gpu, around, run>>

Teardown ==
  /\ at = "cleanup" /\ Worked
  /\ at' = "teardown" /\ todo' = RetireOrder \o TeardownOrder
  /\ UNCHANGED <<then, live, size, allocated, extent, serial, gpu, around, run>>

\* cleanup cannot wait for the GPU: everything but the callback into this
\* object is left to the end of the process.
Abandon ==
  /\ at = "cleanup" /\ pending # {}
  /\ live' = live \ {Obj("messenger")}
  /\ passed' = FALSE
  /\ at' = "gone"
  /\ UNCHANGED <<then, todo, size, allocated, extent, serial, gpu, around,
                 mode, step, job, frames, reported>>

Gone == at = "gone" /\ UNCHANGED vars

-----------------------------------------------------------------------------
(* What happens around the run, as long as the host may still look at it.  *)

Watched == at \in {"ready", "draw", "undrawn", "await"}

Lapse ==
  /\ Watched /\ ~late /\ late' = TRUE
  /\ UNCHANGED <<at, then, owned, extent, serial, gpu, window, changes, seen, published, stop, run>>

Publish ==
  /\ Watched /\ mode = "live" /\ published < MaxRevision
  /\ published' = published + 1
  /\ UNCHANGED <<at, then, owned, extent, serial, gpu, window, changes, late, seen, stop, run>>

OwnerStops ==
  /\ Watched /\ mode = "live" /\ ~stop /\ stop' = TRUE
  /\ UNCHANGED <<at, then, owned, extent, serial, gpu, window, changes, late, seen, published, run>>

Host ==
  \/ \E f \in Fences : WaitFor(f)
  \/ Make \/ Recreate \/ Destroy
  \/ Draw \/ Sized \/ Acquire \/ AcquireNothing \/ Upload \/ Submit \/ Present \/ Capture
  \/ NextStep \/ Retry \/ Await \/ Drawn \/ Browse \/ Finish
  \/ LiveTurn \/ LiveEnd \/ Report
  \/ Fails \/ Teardown \/ Abandon

Next ==
  \/ Host \/ \E f \in Fences : Complete(f)
  \/ Lapse \/ Publish \/ OwnerStops
  \/ Gone

\* The host runs, the deadline comes, and the owner that publishes to a live
\* run stops by its own deadline.  Nothing is assumed of the GPU or the window.
Spec == Init /\ [][Next]_vars /\ WF_vars(Host) /\ WF_vars(Lapse) /\ WF_vars(OwnerStops)

-----------------------------------------------------------------------------

(***************************************************************************)
(* What the GPU has not completed uses only objects that exist: no resize, *)
(* failure, timeout or cleanup destroys anything in flight.                *)
(***************************************************************************)
InFlightIsAlive == \A f \in flying : Uses(f) \subseteq live

(***************************************************************************)
(* Nothing outlives what it was made from, wherever construction stopped   *)
(* and whatever is rebuilt; a run leaves nothing behind and the budget of  *)
(* bytes untouched, or is reported failed without its callback, when the   *)
(* GPU could not be waited for.                                            *)
(***************************************************************************)
NothingOutlives ==
  /\ \A n \in 0 .. (IF at = "construct" THEN 0 ELSE Len(todo)) :
       LET left == live \ {todo[i] : i \in 1 .. n}
       IN \A o \in left : Parents[o] \subseteq left
  /\ at = "gone" => \/ live = {} /\ allocated = 0
                    \/ Obj("messenger") \notin live /\ ~passed

(***************************************************************************)
(* A captured frame shows the packet it is reported with: the readback is  *)
(* copied after its own rendering, and no later draw has written the mesh. *)
(***************************************************************************)
FramesShowTheirPacket == \A i \in DOMAIN frames : frames[i].shows = frames[i].packet

(***************************************************************************)
(* Progress is reported to the owner only for what has been presented; a   *)
(* queued present is not enough.                                           *)
(***************************************************************************)
ReportedIsVisible == mode = "live" => reported <= visible

(***************************************************************************)
(* A run ends, unless its script is over and the window left to the user:  *)
(* no wait is unbounded, whatever the window does and whether or not the   *)
(* GPU ever completes.                                                     *)
(***************************************************************************)
RunEnds == <>(at = "gone" \/ Browsing)
=============================================================================

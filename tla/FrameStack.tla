----------------------------- MODULE FrameStack -----------------------------
(***************************************************************************)
(* Call frames in framesBuffer (executor.cpp:25-37, 68-79, 380-387;        *)
(* frame.cpp:7-10).  A frame is two blocks of the linear buffer: the Frame *)
(* itself, then the storage of its register vector, if it has registers.   *)
(* Entering a function may fail for want of room before the first block    *)
(* or, having taken it, before the second; ret() gives both back.  The     *)
(* buffer is the host's: it outlives an executor, and a host that caught   *)
(* an exception may go on with a new executor over the same buffer.        *)
(*                                                                         *)
(* A handler is a step for every block it takes or gives back: the buffer  *)
(* only counts words, and it is the order of the calls that keeps blocks   *)
(* apart.                                                                  *)
(***************************************************************************)
EXTENDS LinearBuffer

CONSTANTS
    FrameWords,  \* sizeof(Frame) in words
    Func,        \* functions of the loaded file
    Main,        \* the one getStartFunc() returns
    numRegs      \* registers of each function

ASSUME FrameStackAssumption ==
    /\ FrameWords \in Nat \ {0}
    /\ Main \in Func
    /\ numRegs \in [Func -> Nat]
    /\ ElemSize = {1, FrameWords}
    /\ Count = {1} \cup {numRegs[f] : f \in Func}

VARIABLES
    frames,      \* the frames reachable from currentFrame_, the current last
    callee,      \* the function whose Frame was allocated last
    start,       \* the mark when the executor was created
    mode         \* what run() is doing, or how it ended

stackVars == <<offset, live, frames, callee, start, mode>>

(* A frame is known by the place of its Frame in live.                     *)
Frame == [block : Nat \ {0}, func : Func]

StackTypeOK ==
    /\ TypeOK
    /\ frames \in Seq(Frame)
    /\ callee \in Func
    /\ start \in Nat
    /\ mode \in {"idle", "entering", "running", "leaving", "threw", "aborted"}

StackInit ==
    /\ Init
    /\ frames = <<>>
    /\ callee = Main
    /\ start = 0
    /\ mode = "idle"

Room == Size - offset
Current == frames[Len(frames)]

(* LinearAllocator<Frame>.allocate(1).                                     *)
TakeFrame(f) ==
    /\ \/ Allocate(FrameWords, 1) /\ mode' = "entering" /\ callee' = f
       \/ 1 > Room \div FrameWords /\ mode' = "threw" /\ UNCHANGED <<vars, callee>>
    /\ UNCHANGED <<frames, start>>

(* run(): init() asserts that the executor has no frame.                   *)

(* Mutation: init() does not assert that the executor has no frame.        *)
RunUnchecked == mode \in {"idle", "threw"} /\ TakeFrame(Main)

Run ==
    /\ mode \in {"idle", "threw"}
    /\ \/ frames = <<>> /\ TakeFrame(Main)
       \/ /\ frames # <<>> /\ mode' = "aborted"
          /\ UNCHANGED <<vars, frames, callee, start>>

Call(f) == mode = "running" /\ TakeFrame(f)

(* The constructor of Frame; the block of a Frame whose constructor throws *)
(* is not given back.                                                      *)

(* Mutation: the registers are checked against the room the Frame left     *)
(* before it was taken.                                                    *)
ConstructStaleRoom ==
    LET n == numRegs[callee] IN
    /\ mode = "entering"
    /\ n <= Room + FrameWords
    /\ offset' = offset + n
    /\ live' = Append(live, [base |-> offset, size |-> n])
    /\ frames' = Append(frames, [block |-> Len(live), func |-> callee])
    /\ mode' = "running"
    /\ UNCHANGED <<callee, start>>

Construct ==
    LET n == numRegs[callee] IN
    /\ mode = "entering"
    /\ \/ /\ n > Room
          /\ mode' = "threw" /\ UNCHANGED <<vars, frames>>
       \/ /\ \/ n > 0 /\ Allocate(1, n)
             \/ n = 0 /\ UNCHANGED vars
          /\ frames' = Append(frames, [block |-> Len(live), func |-> callee])
          /\ mode' = "running"
    /\ UNCHANGED <<callee, start>>

(* ret(): ~Frame() gives the registers back, if there are any.             *)

(* Mutations: the Frame is given back before its registers; registers are  *)
(* not given back.                                                         *)
DestroyFrameFirst ==
    /\ mode = "running"
    /\ Deallocate(Current.block)
    /\ mode' = "leaving"
    /\ UNCHANGED <<frames, callee, start>>
DestroyNothing ==
    /\ mode = "running"
    /\ mode' = "leaving"
    /\ UNCHANGED <<vars, frames, callee, start>>

Destroy ==
    /\ mode = "running"
    /\ \/ numRegs[Current.func] > 0 /\ Deallocate(Current.block + 1)
       \/ numRegs[Current.func] = 0 /\ UNCHANGED vars
    /\ mode' = "leaving"
    /\ UNCHANGED <<frames, callee, start>>

(* deallocate(buf, 1); the caller, if there is one, goes on.               *)
Leave ==
    /\ frames' = SubSeq(frames, 1, Len(frames) - 1)
    /\ mode' = IF Len(frames) = 1 THEN "idle" ELSE "running"
    /\ UNCHANGED <<callee, start>>

(* Mutation: ret() forgets to deallocate the Frame.                        *)
RetKeepingFrame == mode = "leaving" /\ UNCHANGED vars /\ Leave

Ret == mode = "leaving" /\ Deallocate(Current.block) /\ Leave

(* Any other instruction may throw out of run().                           *)
Throw ==
    /\ mode = "running"
    /\ mode' = "threw"
    /\ UNCHANGED <<vars, frames, callee, start>>

(* An executor has no destructor: its frames stay in the buffer.           *)
NewExecutor ==
    /\ mode \in {"idle", "threw"}
    /\ frames' = <<>>
    /\ start' = offset
    /\ mode' = "idle"
    /\ UNCHANGED <<vars, callee>>

StackNext ==
    \/ Run \/ Construct \/ Destroy \/ Ret \/ Throw \/ NewExecutor
    \/ \E f \in Func : Call(f)

StackSpec == StackInit /\ [][StackNext]_stackVars

-----------------------------------------------------------------------------
FrameBase(f) == live[f.block].base
FrameEnd(f) == FrameBase(f) + FrameWords + numRegs[f.func]

(* The frames of an executor lie back to back from the mark it started at, *)
(* inside the buffer: no frame overlaps another or what an earlier         *)
(* executor left behind (frame.cpp:9, executor.cpp:381-383).               *)
Stacked ==
    /\ offset <= Size
    /\ \A k \in 1 .. Len(frames) :
          FrameBase(frames[k]) = IF k = 1 THEN start ELSE FrameEnd(frames[k - 1])

(* While a program runs nothing but its frames is in the buffer beyond     *)
(* that mark; a run that ended normally has given back everything          *)
(* (executor.cpp:69-73).                                                   *)
NoLeak ==
    /\ mode = "running" => frames # <<>> /\ offset = FrameEnd(Current)
    /\ mode = "idle" => frames = <<>> /\ offset = start

(* An exception out of a running program leaves its frames and at most one *)
(* Frame without registers behind (executor.cpp:382).  If it was main that *)
(* did not fit, run() can be tried again; it leaves one more Frame behind  *)
(* as long as there is room for it, and never succeeds.                    *)
LeakIsOneFrame ==
    mode = "threw" =>
        IF frames = <<>>
        THEN offset >= start /\ FrameWords + numRegs[Main] > Room
        ELSE offset - FrameEnd(Current) \in {0, FrameWords}

(* A return puts the mark where it was when the function was called, for   *)
(* every function and depth (executor.cpp:68-73).                          *)
RetUndoesCall == [][Ret => offset' = FrameBase(Current)]_stackVars

(* The buffer drops its mark by the size of whatever it is told to free;   *)
(* what keeps frames and registers from sharing words is that they are     *)
(* given back in the reverse order of their allocation, through every      *)
(* call, return and exception: ~Frame() first, deallocate() after it       *)
(* (executor.cpp:71-73).                                                   *)
LastInFirstOut == LifoSpec
=============================================================================

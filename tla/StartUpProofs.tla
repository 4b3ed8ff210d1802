--------------------------- MODULE StartUpProofs ---------------------------
(***************************************************************************)
(* From loading to unloading, with exec_adaboost inside and every call     *)
(* failing when it likes, the detection threads still behave as module     *)
(* HumanDetect says, a human in the image is never missed, and the driver  *)
(* never has an interrupt without its registers.                           *)
(***************************************************************************)
EXTENDS StartUp, HumanDetectProofs

-----------------------------------------------------------------------------
(* StartUp implements HumanDetect.                                         *)

LEMMA StartStep ==
  ASSUME [StartNext]_startVars
  PROVE  [Next]_vars
<1>1. CASE LoadDriver \/ UnloadDriver \/ Start \/ Scan \/ ReadUnmapped \/ ReadBeyond
  BY <1>1, SMT DEF LoadDriver, UnloadDriver, Start, Scan, ReadUnmapped, ReadBeyond
<1>2. CASE InitFpga \/ CallFails
  BY <1>2, SMT DEF InitFpga, CallFails, OpenDevice, ReadWeak, ReadWeakFails, CreateQueue,
     CreateHumanDetect, CreateAdaboost, MapFeatures, Call
<1>3. CASE HumanDetectStep
  BY <1>3, Zenon DEF HumanDetectStep, Next
<1>4. CASE AdaboostStep
  BY <1>4, Zenon DEF AdaboostStep, Next
<1>5. CASE Signal \/ Interrupt
  BY <1>5, Zenon DEF Signal, Interrupt, Next
<1>6. CASE Others
  BY <1>6, Zenon DEF Others, Next, Environment
<1>7. CASE UNCHANGED startVars
  BY <1>7, SMT DEF startVars
<1> QED
  BY <1>1, <1>2, <1>3, <1>4, <1>5, <1>6, <1>7, Zenon DEF StartNext

(* Starting, failing and stopping add nothing to what the threads and the  *)
(* driver do: what is true of HumanDetect is true of the whole program.    *)
THEOREM StartImplementsHumanDetect == StartSpec => Spec
<1>1. StartInit => Init
  BY Zenon DEF StartInit
<1> QED
  BY <1>1, StartStep, PTL DEF StartSpec, Spec

(* The threads and the driver keep their variables in range (TypeOK of     *)
(* HumanDetect) from loading to unloading.                                 *)
THEOREM ThreadsTypeCorrect == StartSpec => []TypeOK
BY StartImplementsHumanDetect, HumanTypeCorrect, PTL

(* With init_fpga and exec_adaboost in the picture the code still          *)
(* implements the promise of module Detector.                              *)
THEOREM ProgramKeepsPromise == StartSpec => KeepsPromise
BY StartImplementsHumanDetect, CodeKeepsPromise, PTL

(* Nor do they disturb the way from an interrupt to exec_adaboost: unless  *)
(* a signal or an early frame has (FeaturesAreFresh), it copies finished   *)
(* features of the scale it asked for.                                     *)
THEOREM ProgramFeaturesAreFresh ==
  ASSUME "prompt" \in Timing
  PROVE  StartSpec => []FreshFeatures
BY StartImplementsHumanDetect, FeaturesAreFresh, PTL

-----------------------------------------------------------------------------
(* The driver: what is held at each call of fpga_init and fpga_exit.       *)

LoadInv ==
  /\ load \in {"register", "map_res", "map_dummy", "request", "loaded",
              "unregister", "unmap_res", "unmap_dummy", "failed", "unloaded"}
  /\ load \in {"register", "failed", "unloaded"} => held = {}
  /\ load = "map_res" => held = {"chrdev"}
  /\ load = "map_dummy" => held = {"chrdev", "res_regs"}
  /\ load = "request" => held = {"chrdev", "res_regs", "dummy_regs"}
  /\ load = "loaded" => held = {"chrdev", "res_regs", "dummy_regs", "irq"}
  /\ load = "unregister" => held = {"chrdev", "res_regs", "dummy_regs"}
  /\ load = "unmap_res" => held = {"res_regs", "dummy_regs"}
  /\ load = "unmap_dummy" => held = {"dummy_regs"}

LEMMA LoadStep ==
  ASSUME LoadInv, Load \/ Unload \/ UNCHANGED loadVars
  PROVE  LoadInv'
<1>1. CASE Load
  <2>1. CASE \/ Acquire("register", "chrdev", "map_res")
             \/ Acquire("map_res", "res_regs", "map_dummy")
             \/ Acquire("map_dummy", "dummy_regs", "request")
             \/ Acquire("request", "irq", "loaded")
    BY <2>1, SMT DEF Acquire, LoadInv
  <2>2. CASE \/ GiveUp("register", {})
             \/ GiveUp("map_res", {"chrdev"})
             \/ GiveUp("map_dummy", {"res_regs", "chrdev"})
             \/ GiveUp("request", {"chrdev", "res_regs", "dummy_regs"})
    BY <2>2, SMT DEF GiveUp, LoadInv
  <2> QED
    BY <1>1, <2>1, <2>2, Zenon DEF Load
<1>2. CASE Unload
  BY <1>2, SMT DEF Unload, Release, LoadInv
<1>3. CASE UNCHANGED loadVars
  BY <1>3, SMT DEF loadVars, LoadInv
<1> QED
  BY <1>1, <1>2, <1>3

LEMMA LoadInvariance == StartSpec => []LoadInv
<1>1. StartInit => LoadInv
  BY SMT DEF StartInit, LoadInit, LoadInv
<1>2. ASSUME LoadInv, [StartNext]_startVars
      PROVE  LoadInv'
  <2>1. Load \/ Unload \/ UNCHANGED loadVars
    BY <1>2, SMT DEF StartNext, startVars, LoadDriver, UnloadDriver, Start, InitFpga,
       CallFails, OpenDevice, ReadWeak, ReadWeakFails, CreateQueue, CreateHumanDetect,
       CreateAdaboost, MapFeatures, Call, HumanDetectStep, Scan, AdaboostStep,
       ReadUnmapped, ReadBeyond, Signal, Interrupt, Others
  <2> QED
    BY <1>2, <2>1, LoadStep
<1> QED
  BY <1>1, <1>2, PTL DEF StartSpec

(* Whatever fails while the driver is loaded or unloaded, the interrupt    *)
(* handler of fpgamod.c never runs without the registers it writes.        *)
THEOREM HandlerAlwaysMapped == StartSpec => []HandlerMapped
<1>1. LoadInv => HandlerMapped
  BY SMT DEF LoadInv, HandlerMapped
<1> QED
  BY <1>1, LoadInvariance, PTL

(* Every error path of fpga_init gives back all that has been acquired.    *)
THEOREM LoadCleansUp == StartSpec => []FailedLoadLeavesNothing
<1>1. LoadInv => FailedLoadLeavesNothing
  BY SMT DEF LoadInv, FailedLoadLeavesNothing
<1> QED
  BY <1>1, LoadInvariance, PTL

-----------------------------------------------------------------------------
(* exec_adaboost.                                                          *)

(* AdaboostAssumption, the image apart from the classifiers.               *)
LEMMA ImageSizes ==
  /\ WindowX \in Nat \ {0} /\ WindowY \in Nat \ {0}
  /\ CellX \in Nat /\ CellX >= WindowX
  /\ CellY \in Nat /\ CellY >= WindowY
  /\ Threshold \in Nat
  /\ SizeRange \in Nat /\ SizeRange > CellX
BY AdaboostAssumption, Zenon

LEMMA WeakInWindow ==
  ASSUME NEW m \in DOMAIN Weak
  PROVE  Weak[m].x \in 0 .. WindowX - 1 /\ Weak[m].y \in 0 .. WindowY - 1
<1> DEFINE W == [x : 0 .. WindowX - 1, y : 0 .. WindowY - 1, h : SUBSET Orientation, w : Int]
<1>1. Weak \in Seq(W)
  BY AdaboostAssumption, Zenon
<1>2. Weak[m] \in W
  <2> HIDE DEF W
  <2> QED
    BY <1>1, SMT
<1> QED
  BY <1>2, SMT

(* The test of line 320 holds for every window.                            *)
LEMMA AlwaysTried ==
  ASSUME NEW y \in 0 .. CellY - 1, NEW x \in 0 .. CellX - 1
  PROVE  Tried(y, x)
<1>1. \A a, b \in Int : Minus(a, b) \in Nat
  BY ImageSizes, SMT DEF Minus
<1>2. Minus(CellY, WindowY) \in Nat /\ Minus(CellX, WindowX) \in Nat
  BY <1>1, ImageSizes, SMT
<1>3. Minus(Minus(CellY, WindowY), y) \in Nat /\ Minus(Minus(CellX, WindowX), x) \in Nat
  BY <1>1, <1>2, SMT
<1> QED
  BY <1>3, SMT DEF Tried

(* A window inside the image reads copied cells only.                      *)
LEMMA WholeInside ==
  ASSUME NEW y \in 0 .. CellY - 1, NEW x \in 0 .. CellX - 1, Whole(y, x),
         NEW m \in DOMAIN Weak
  PROVE  CellOf(m, y, x) \in Cells
<1>1. PICK ax \in 0 .. WindowX - 1, ay \in 0 .. WindowY - 1 :
        Weak[m].x = ax /\ Weak[m].y = ay
  BY WeakInWindow, Zenon
<1>2. PICK r \in 0 .. CellY - 1 : r = y + ay
  BY ImageSizes, SMT DEF Whole
<1>3. PICK c \in 0 .. CellX - 1 : c = x + ax
  BY ImageSizes, SMT DEF Whole
<1>4. CellOf(m, y, x) = r * CellX + x + ax
  BY <1>1, <1>2, Zenon DEF CellOf
<1>5. 0 <= r * CellX /\ r * CellX <= (CellY - 1) * CellX
  BY ImageSizes, SMT
<1>6. (CellY - 1) * CellX = CellX * CellY - CellX
  BY ImageSizes, SMT
<1>7. r * CellX \in Int /\ CellX * CellY \in Int /\ (CellY - 1) * CellX \in Int
  BY ImageSizes, SMT
<1> QED
  BY <1>3, <1>4, <1>5, <1>6, <1>7, ImageSizes, SMT DEF Cells

LEMMA WholeHits ==
  ASSUME NEW y \in 0 .. CellY - 1, NEW x \in 0 .. CellX - 1, Whole(y, x),
         NEW beyond
  PROVE  Hits(y, x, beyond) = Hits(y, x, {})
BY WholeInside, Zenon DEF Hits

(* The windows exec_adaboost has passed.                                   *)
Passed(y, x) == y < row \/ (y = row /\ x < col)

ScanInv ==
  /\ ScanTypeOK
  /\ scan = "copy" => row = 0 /\ col = 0
  /\ scan = "window" =>
       \A y \in 0 .. CellY - 1, x \in 0 .. CellX - 1 :
         Whole(y, x) /\ Passed(y, x) => ~LooksHuman(y, x, {})
  /\ NoHumanMissed

LEMMA CopyStep ==
  ASSUME ScanInv, Copy
  PROVE  ScanInv'
<1>1. ScanTypeOK' /\ scan' = "window" /\ row' = 0 /\ col' = 0
  BY SMT DEF ScanInv, ScanTypeOK, Copy
<1>2. \A y \in 0 .. CellY - 1, x \in 0 .. CellX - 1 : ~(y < 0) /\ ~(x < 0)
  BY ImageSizes, SMT
<1> QED
  BY <1>1, <1>2, Zenon DEF ScanInv, Passed, NoHumanMissed

(* A window that does not look like a human is passed.                     *)
LEMMA TryStep ==
  ASSUME ScanInv, TryWindow
  PROVE  ScanInv'
<1>1. row \in 0 .. CellY - 1 /\ col \in 0 .. CellX - 1 /\ HogBin \in Features
  BY Zenon DEF ScanInv, ScanTypeOK
<1>2. HogBin' = HogBin /\ scan = "window"
  BY SMT DEF TryWindow, NextWindow
<1>3. \A y, x : LooksHuman(y, x, {})' <=> LooksHuman(y, x, {})
  BY <1>2, Zenon DEF Hits, LooksHuman
<1>4. PICK beyond \in SUBSET DOMAIN Weak :
        \/ scan' = "human" /\ UNCHANGED <<row, col>>
        \/ ~(Tried(row, col) /\ LooksHuman(row, col, beyond)) /\ NextWindow
  BY Zenon DEF TryWindow
<1>5. CASE scan' = "human" /\ UNCHANGED <<row, col>>
  BY <1>1, <1>2, <1>5, SMT DEF ScanInv, ScanTypeOK, NoHumanMissed
<1>6. CASE ~(Tried(row, col) /\ LooksHuman(row, col, beyond)) /\ NextWindow
  <2>1. ScanTypeOK' /\ scan' # "copy"
    BY <1>1, <1>2, <1>6, ImageSizes, SMT DEF TryWindow, NextWindow, ScanTypeOK
  <2>2. Whole(row, col) => ~LooksHuman(row, col, {})
    <3>1. Tried(row, col)
      BY <1>1, AlwaysTried, Zenon
    <3>2. Whole(row, col) => Hits(row, col, beyond) = Hits(row, col, {})
      BY <1>1, WholeHits, Zenon
    <3> QED
      BY <1>6, <3>1, <3>2, Zenon DEF LooksHuman
  <2>3. ASSUME NEW y \in 0 .. CellY - 1, NEW x \in 0 .. CellX - 1, Whole(y, x),
               Passed(y, x)' \/ scan' = "none"
        PROVE  ~LooksHuman(y, x, {})
    <3>1. Passed(y, x) \/ (y = row /\ x = col)
      <4>1. NextWindow
        BY <1>6, Zenon
      <4>2. y < row' \/ (y = row' /\ x < col') \/ scan' = "none"
        BY <2>3, Zenon DEF Passed
      <4> QED
        BY <1>1, <1>2, <4>1, <4>2, ImageSizes, SMT DEF NextWindow, Passed
    <3>2. CASE Passed(y, x)
      BY <2>3, <3>2, Zenon DEF ScanInv, TryWindow
    <3>3. CASE y = row /\ x = col
      BY <2>2, <2>3, <3>3, Zenon
    <3> QED
      BY <3>1, <3>2, <3>3
  <2> QED
    BY <1>3, <2>1, <2>3, Zenon DEF ScanInv, NoHumanMissed
<1> QED
  BY <1>4, <1>5, <1>6

LEMMA ReturnStep ==
  ASSUME ScanReturns
  PROVE  ScanInv'
<1>1. NoFeatures \in Features
  BY Zenon DEF NoFeatures, Features
<1>2. 0 \in 0 .. CellY - 1 /\ 0 \in 0 .. CellX - 1
  BY ImageSizes, SMT
<1>3. ScanTypeOK'
  BY <1>1, <1>2, Zenon DEF ScanReturns, ScanTypeOK
<1> QED
  BY <1>3, SMT DEF ScanReturns, ScanInv, NoHumanMissed

LEMMA ScanInvStep ==
  ASSUME ScanInv, [StartNext]_startVars
  PROVE  ScanInv'
<1>1. Copy \/ TryWindow \/ ScanReturns \/ UNCHANGED scanVars
  BY SMT DEF StartNext, startVars, LoadDriver, UnloadDriver, Start, InitFpga,
     CallFails, OpenDevice, ReadWeak, ReadWeakFails, CreateQueue, CreateHumanDetect,
     CreateAdaboost, MapFeatures, Call, HumanDetectStep, Scan, ScanAnswer, AdaboostStep,
     ReadUnmapped, ReadBeyond, Signal, Interrupt, Others
<1>2. ASSUME UNCHANGED scanVars PROVE ScanInv'
  <2>1. scan' = scan /\ row' = row /\ col' = col /\ HogBin' = HogBin
    BY <1>2, Zenon DEF scanVars
  <2> QED
    BY <2>1, Zenon DEF ScanInv, ScanTypeOK, Passed, NoHumanMissed, LooksHuman, Hits
<1> QED
  BY <1>1, <1>2, CopyStep, TryStep, ReturnStep

LEMMA ScanInvariance == StartSpec => []ScanInv
<1>1. StartInit => ScanInv
  <2>1. NoFeatures \in Features /\ 0 \in 0 .. CellY - 1 /\ 0 \in 0 .. CellX - 1
    BY ImageSizes, SMT DEF NoFeatures, Features
  <2>2. ScanInit => ScanTypeOK
    BY <2>1, Zenon DEF ScanInit, ScanTypeOK
  <2> QED
    BY <2>2, SMT DEF StartInit, ScanInit, ScanInv, NoHumanMissed
<1> QED
  BY <1>1, ScanInvStep, PTL DEF StartSpec

(* For images and windows of every size and for every list of weak         *)
(* classifiers exec_adaboost returns 0 only if no window inside the image  *)
(* looks like a human: line 320 skips nothing, windows inside read only    *)
(* what has been copied, and the loops reach all of them.                  *)
THEOREM NoHumanIsMissed == StartSpec => []NoHumanMissed
<1>1. ScanInv => NoHumanMissed
  BY Zenon DEF ScanInv
<1> QED
  BY <1>1, ScanInvariance, PTL

-----------------------------------------------------------------------------
(* init_fpga.                                                              *)

CallInv ==
  /\ spc \in {"off", "open", "weak", "msgq", "human", "adaboost", "mem",
             "up", "undetected", "gone"}
  /\ hogbase \in {"null", "mapped"}

LEMMA CallInvStep ==
  ASSUME CallInv, [StartNext]_startVars
  PROVE  CallInv'
<1>1. CASE InitFpga \/ CallFails
  BY <1>1, SMT DEF InitFpga, CallFails, FatalCalls, OpenDevice, ReadWeak, ReadWeakFails,
     CreateQueue, CreateHumanDetect, CreateAdaboost, MapFeatures, Call, CallInv
<1>2. CASE LoadDriver \/ UnloadDriver \/ Start
  BY <1>2, SMT DEF LoadDriver, UnloadDriver, Start, CallInv
<1>3. CASE HumanDetectStep \/ Scan \/ AdaboostStep \/ Signal \/ Interrupt \/ Others
  BY <1>3, SMT DEF HumanDetectStep, Scan, AdaboostStep, Signal, Interrupt, Others, CallInv
<1>4. CASE ReadUnmapped \/ ReadBeyond
  BY <1>4, SMT DEF ReadUnmapped, ReadBeyond, CallInv
<1>5. CASE UNCHANGED startVars
  BY <1>5, SMT DEF startVars, CallInv
<1> QED
  BY <1>1, <1>2, <1>3, <1>4, <1>5, Zenon DEF StartNext

LEMMA CallInvariance == StartSpec => []CallInv
<1>1. StartInit => CallInv
  BY SMT DEF StartInit, CallInv
<1> QED
  BY <1>1, CallInvStep, PTL DEF StartSpec

(* From loading to unloading every variable of the start, the threads, the *)
(* driver and exec_adaboost keeps to its range.                            *)
THEOREM StartTypeCorrect == StartSpec => []StartTypeOK
<1>1. TypeOK /\ ScanInv /\ LoadInv /\ CallInv => StartTypeOK
  <2>1. LoadInv => LoadTypeOK
    BY SMT DEF LoadInv, LoadTypeOK
  <2> QED
    BY <2>1, Zenon DEF ScanInv, CallInv, StartTypeOK
<1> QED
  BY <1>1, ThreadsTypeCorrect, ScanInvariance, LoadInvariance, CallInvariance, PTL

=============================================================================

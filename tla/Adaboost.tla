------------------------------ MODULE Adaboost ------------------------------
(***************************************************************************)
(* exec_adaboost (fpgadrv.c): the features the FPGA has written are copied *)
(* to HogBin, and a classifier slides over the cells of the image until a  *)
(* window looks like a human.                                              *)
(***************************************************************************)
EXTENDS Integers, Sequences, FiniteSetsExt

CONSTANTS
  CellX, CellY,       (* Cell_X and Cell_Y: 256 and 144.                   *)
  WindowX, WindowY,   (* The window of the classifiers: 12 and 25 cells.   *)
  Weak,               (* ada_list_x, _y, _h and _w: the weak classifiers.  *)
  Threshold,          (* 1.3 in the code.                                  *)
  Orientation,        (* The bits of a cell.                               *)
  SizeRange           (* size_t wraps around at this value.                *)

ASSUME AdaboostAssumption ==
  /\ WindowX \in Nat \ {0} /\ WindowY \in Nat \ {0}
  /\ CellX \in Nat /\ CellX >= WindowX
  /\ CellY \in Nat /\ CellY >= WindowY
  /\ Weak \in Seq([x : 0 .. WindowX - 1, y : 0 .. WindowY - 1,
                   h : SUBSET Orientation, w : Int])
  /\ Threshold \in Nat
  /\ SizeRange \in Nat /\ SizeRange > CellX /\ SizeRange > CellY

VARIABLES
  scan,      (* Copying, at a window, or back with an answer.              *)
  row, col,  (* y and x of the loops.                                      *)
  HogBin     (* The bits of every cell.                                    *)

scanVars == <<scan, row, col, HogBin>>

Cells == 0 .. CellX * CellY - 1
Features == [Cells -> SUBSET Orientation]
NoFeatures == [c \in Cells |-> {}]

ScanTypeOK ==
  /\ scan \in {"copy", "window", "human", "none"}
  /\ row \in 0 .. CellY - 1
  /\ col \in 0 .. CellX - 1
  /\ HogBin \in Features

ScanInit ==
  /\ scan = "copy"
  /\ row = 0
  /\ col = 0
  /\ HogBin = NoFeatures

-----------------------------------------------------------------------------
Minus(a, b) == (a - b) % SizeRange

(* Mutant: compared as signed numbers, and one short.                      *)
TriedStrictly(y, x) == CellY - WindowY - y > 0 /\ CellX - WindowX - x > 0

(* The test that is to skip windows which do not fit.  Its operands are of *)
(* type size_t, so it never does.                                          *)
Tried(y, x) ==
  /\ Minus(Minus(CellY, WindowY), y) >= 0
  /\ Minus(Minus(CellX, WindowX), x) >= 0

CellOf(m, y, x) == (y + Weak[m].y) * CellX + x + Weak[m].x

(* Beyond the last cell there may be other data: "beyond" are the          *)
(* classifiers that find their bit there.  Or there is none, which is      *)
(* ReadBeyond of module StartUp.                                           *)
Hits(y, x, beyond) ==
  {m \in DOMAIN Weak :
     IF CellOf(m, y, x) \in Cells
       THEN HogBin[CellOf(m, y, x)] \cap Weak[m].h # {}
       ELSE m \in beyond}

Weight(hits) ==
  MapThenSumSet(LAMBDA m : IF m \in hits THEN Weak[m].w ELSE -Weak[m].w, DOMAIN Weak)

Copy ==
  /\ scan = "copy"
  /\ scan' = "window"
  /\ HogBin' \in Features
  /\ UNCHANGED <<row, col>>

(* Mutant: the column is compared with <=.                                 *)
NextWindowOneMore ==
  \/ /\ col < CellX
     /\ col' = col + 1
     /\ UNCHANGED <<scan, row, HogBin>>
  \/ /\ col = CellX
     /\ scan' = "none"
     /\ UNCHANGED <<row, col, HogBin>>

NextWindow ==
  \/ /\ col + 1 < CellX
     /\ col' = col + 1
     /\ UNCHANGED <<scan, row, HogBin>>
  \/ /\ col + 1 = CellX /\ row + 1 < CellY
     /\ row' = row + 1
     /\ col' = 0
     /\ UNCHANGED <<scan, HogBin>>
  \/ /\ col + 1 = CellX /\ row + 1 = CellY
     /\ scan' = "none"
     /\ UNCHANGED <<row, col, HogBin>>

LooksHuman(y, x, beyond) == Weight(Hits(y, x, beyond)) > Threshold

TryWindow ==
  /\ scan = "window"
  /\ \E beyond \in SUBSET DOMAIN Weak :
       \/ /\ Tried(row, col) /\ LooksHuman(row, col, beyond)
          /\ scan' = "human"
          /\ UNCHANGED <<row, col, HogBin>>
       \/ /\ ~(Tried(row, col) /\ LooksHuman(row, col, beyond))
          /\ NextWindow

(* The features left in HogBin are overwritten by the next copy.           *)
ScanReturns ==
  /\ scan' = "copy"
  /\ row' = 0
  /\ col' = 0
  /\ HogBin' = NoFeatures

-----------------------------------------------------------------------------
(* A window that lies inside the image.                                    *)
Whole(y, x) == y + WindowY <= CellY /\ x + WindowX <= CellX

(* exec_adaboost says that there is no human only if no window inside the  *)
(* image looks like one, whatever lies behind HogBin: the test that skips  *)
(* windows (fpgadrv.c line 320) skips none of these.                       *)
NoHumanMissed ==
  scan = "none" =>
    \A y \in 0 .. CellY - 1, x \in 0 .. CellX - 1 :
      Whole(y, x) => ~LooksHuman(y, x, {})

=============================================================================

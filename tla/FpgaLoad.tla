------------------------------ MODULE FpgaLoad ------------------------------
(***************************************************************************)
(* Loading and unloading of the driver: fpga_init and fpga_exit            *)
(* (fpgamod.c).  Interrupts may come as soon as request_irq has returned.  *)
(***************************************************************************)

VARIABLES
  load,   (* The next call of fpga_init or fpga_exit.                      *)
  held    (* What has been registered or mapped.                           *)

loadVars == <<load, held>>

LoadTypeOK ==
  /\ load \in {"register", "map_res", "map_dummy", "request", "loaded",
               "unregister", "unmap_res", "unmap_dummy", "failed", "unloaded"}
  /\ held \subseteq {"chrdev", "res_regs", "dummy_regs", "irq"}

LoadInit == load = "register" /\ held = {}

Acquire(from, what, to) ==
  /\ load = from
  /\ held' = held \cup {what}
  /\ load' = to

(* Mutant: the registers of dummy_regs stay mapped.                        *)
GiveUpKeepsDummy(from, given) ==
  /\ load = from
  /\ held' = held \ (given \ {"dummy_regs"})
  /\ load' = "failed"

GiveUp(from, given) ==
  /\ load = from
  /\ held' = held \ given
  /\ load' = "failed"

Release(from, what, to) ==
  /\ load = from
  /\ held' = held \ {what}
  /\ load' = to

(* fpga_init: each call succeeds, or what has been acquired is given back. *)
Load ==
  \/ Acquire("register", "chrdev", "map_res")
  \/ Acquire("map_res", "res_regs", "map_dummy")
  \/ Acquire("map_dummy", "dummy_regs", "request")
  \/ Acquire("request", "irq", "loaded")
  \/ GiveUp("register", {})
  \/ GiveUp("map_res", {"chrdev"})
  \/ GiveUp("map_dummy", {"res_regs", "chrdev"})
  \/ GiveUp("request", {"chrdev", "res_regs", "dummy_regs"})

(* Mutant: the registers go first.                                         *)
UnloadRegistersFirst ==
  \/ Release("loaded", "res_regs", "unregister")
  \/ Release("unregister", "chrdev", "unmap_res")
  \/ Release("unmap_res", "irq", "unmap_dummy")
  \/ Release("unmap_dummy", "dummy_regs", "unloaded")

(* fpga_exit.                                                              *)
Unload ==
  \/ Release("loaded", "irq", "unregister")
  \/ Release("unregister", "chrdev", "unmap_res")
  \/ Release("unmap_res", "res_regs", "unmap_dummy")
  \/ Release("unmap_dummy", "dummy_regs", "unloaded")

-----------------------------------------------------------------------------
(* Whenever the interrupt can come, the registers its handler writes are   *)
(* mapped, in fpga_init and in fpga_exit, where they are torn down.        *)
HandlerMapped == "irq" \in held => {"res_regs", "dummy_regs"} \subseteq held

(* Whichever call of fpga_init fails, nothing stays registered or mapped,  *)
(* and the module can be loaded again.                                     *)
FailedLoadLeavesNothing == load \in {"failed", "unloaded"} => held = {}

=============================================================================

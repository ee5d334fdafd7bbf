--------------------------- MODULE MCSysRqSetting ---------------------------
(***************************************************************************)
(* Two tasks that set and read sysrq: both extremes, a mask, a mask        *)
(* without a function, and a number whose bits AllowedFunctions does not   *)
(* have.                                                                   *)
(***************************************************************************)
EXTENDS KernelParsers, TLC

CONSTANTS t1, t2

MCTasks == {t1, t2}
MCSettings == {Disable, Enable, Allow({}), Allow({16, 32})}
MCNumbers == {{}, {1}, {16, 32}, {1, 2}}

MCSymmetry == Permutations(MCTasks)
=============================================================================

--------------------------- MODULE MCCaptchaFlow ---------------------------
(***************************************************************************)
(* Values for checking CaptchaFlow.                                        *)
(***************************************************************************)
EXTENDS CaptchaFlow, TLC

AllFaults == {"read", "write", "generate", "telegram", "reply", "crash"}

AllButtons == {"right", "wrong", "backspace", "refresh"}

NoRefresh == {"right", "wrong", "backspace"}

NoBackspace == {"right", "wrong", "refresh"}

Symmetry == Permutations(Users) \cup Permutations(Handlers)
=============================================================================

----------------------------- MODULE MCAuthService -----------------------------
(* AuthService with few slots and tokens; seq does not run out.                *)
EXTENDS AuthService, TLC

TokenSymmetry == Permutations(Token)

==============================================================================

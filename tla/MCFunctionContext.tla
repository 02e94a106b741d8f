------------------------- MODULE MCFunctionContext -------------------------
(* A contract with a wrapper around an internal function that calls one      *)
(* function twice and another one that is not verified in between.           *)
EXTENDS FunctionContext, TLC

CONSTANTS outer, inner, leaf, plain, view

MCFns == {outer, inner, leaf, plain, view}
MCPublic == {outer, view}
MCVerified == {outer, inner, leaf}
MCOwn == outer :> 1 @@ inner :> 1 @@ leaf :> 2 @@ plain :> 0 @@ view :> 0
MCBody == outer :> <<inner, leaf>> @@ inner :> <<leaf, plain, leaf>>
          @@ leaf :> <<>> @@ plain :> <<>> @@ view :> <<plain>>
=============================================================================

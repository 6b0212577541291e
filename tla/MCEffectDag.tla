------------------------------ MODULE MCEffectDag ------------------------------
(* Two independent roots; 3 needs 1 and the "move" branch of 2, 4 the other  *)
(* branch of 2; 5 stands alone, cannot be reversed, and comes in a second    *)
(* round because two nodes run at a time.  A failure of 5 compensates up to  *)
(* three nodes in two waves; its success makes every other failure blocking. *)
(* A denial of 1 lets 5 move up into the selection before it is prepared.    *)
EXTENDS EffectDag

MCSuccess == {<<1, 3>>}
MCConditional == {[from |-> 2, to |-> 3, key |-> "route", outcome |-> "move"],
                  [from |-> 2, to |-> 4, key |-> "route", outcome |-> "defer"]}
MCAnswers == [a \in Kinds \X (1..5) |->
                IF a = <<"forward", 1>> THEN {"require_approval", "deny"}
                ELSE IF a = <<"compensation", 3>> THEN {"require_approval"}
                ELSE IF a = <<"forward", 2>> THEN {"allow", "deny"}
                ELSE IF a = <<"compensation", 1>> THEN EffectOf ELSE {"allow"}]
==============================================================================

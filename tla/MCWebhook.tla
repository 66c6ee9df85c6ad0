----------------------------- MODULE MCWebhook ------------------------------
(***************************************************************************)
(* An instance of Webhook for TLC: one endpoint gets everything, another   *)
(* the messages with a text to one station; saves disable the first or     *)
(* swap them.                                                              *)
(***************************************************************************)
EXTENDS Webhook

CONSTANTS me, a, b, all, pages, noText

All == [name |-> all, enabled |-> TRUE, source |-> "both", includeTX |-> FALSE,
        types |-> {}, callsigns |-> {}, toCallsigns |-> {}, text |-> {}]
Pages == [name |-> pages, enabled |-> TRUE, source |-> "rf", includeTX |-> TRUE,
          types |-> {"message"}, callsigns |-> {{a, b}}, toCallsigns |-> {{me}},
          text |-> {"page"}]
SavedLists == {<<All, Pages>>, <<[All EXCEPT !.enabled = FALSE], Pages>>}

Packets ==
  {[origin |-> "rf", type |-> "message", src |-> a, to |-> me, text |-> "page"],
   [origin |-> "is", type |-> "message", src |-> b, to |-> me, text |-> "page"],
   [origin |-> "tx", type |-> "position", src |-> me, to |-> noText, text |-> noText]}
Heard == {a}
=============================================================================

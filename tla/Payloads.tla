------------------------------ MODULE Payloads ------------------------------
(***************************************************************************)
(* Everything that is made of an input: a long text is cut into chunks     *)
(* (OutgoingText), a text is filtered (TextFilter), the agent's name is    *)
(* sanitized (BotAgent), and media, quotes and answers go over the wire    *)
(* (Exchanges).  One input is chosen from the start.                       *)
(***************************************************************************)
EXTENDS OutgoingText, StreamedFilter, BotAgent, Exchanges

vars == <<textVars, filterVars, agentVars, exchangeVars>>

\* Nothing is cut.
NoText == text = <<>> /\ at = 0 /\ chunks = <<>> /\ whole = TRUE

\* Nothing is filtered.
NoFilter ==
    /\ source = <<>> /\ cuts = {} /\ fed = 0
    /\ filter = Start /\ stage = "done" /\ filtered = <<>>

\* No agent is named.
NoAgent ==
    /\ named = <<>> /\ read = 0 /\ pending = <<>>
    /\ agent = Default /\ full = FALSE /\ sent = TRUE

\* Nothing goes over the wire.
NoExchange == input = [kind |-> "none", value |-> <<>>] /\ done = FALSE /\ result = <<>>

Init ==
    \/ TextInit /\ NoFilter /\ NoAgent /\ NoExchange
    \/ NoText /\ FilterInit /\ NoAgent /\ NoExchange
    \/ NoText /\ NoFilter /\ AgentInit /\ NoExchange
    \/ NoText /\ NoFilter /\ NoAgent /\ ExchangeInit

ChunkText == TextNext /\ UNCHANGED <<filterVars, agentVars, exchangeVars>>

\* build_text_message: the text of a message is filtered in one piece.
FilterText == FilterNext /\ UNCHANGED <<textVars, agentVars, exchangeVars>>

NameAgent == AgentNext /\ UNCHANGED <<textVars, filterVars, exchangeVars>>

Exchange == ExchangeNext /\ UNCHANGED <<textVars, filterVars, agentVars>>

Next ==
    \/ ChunkText
    \/ FilterText
    \/ NameAgent
    \/ Exchange

Spec == Init /\ [][Next]_vars

-----------------------------------------------------------------------------
(* Properties; ChunksTile and ChunksFit are OutgoingText's, LettersKept,             *)
(* PanicsOnlyAtEmptyRows and LinesStreamAsOne the filter's, AgentStable BotAgent's,  *)
(* and those of what goes over the wire Exchanges'.                                  *)

\* Every variable of the texts stays in its domain.
TypeOK == TextTypeOK /\ FilterTypeOK /\ AgentTypeOK /\ done \in BOOLEAN
=============================================================================

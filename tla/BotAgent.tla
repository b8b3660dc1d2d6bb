------------------------------ MODULE BotAgent ------------------------------
(***************************************************************************)
(* sanitize_bot_agent: what is sent of the agent an application names: its *)
(* products, each with the comment behind it.  What matters of a word is   *)
(* its length, whether it is a product, and its parentheses.  A comment is *)
(* words, of which the first one begins with "(" and the last one ends     *)
(* with ")".  The code's three loops each go once over what the one before *)
(* has made; here they are one: a token is accepted, and what it ends is   *)
(* put out, as soon as it is read.                                         *)
(***************************************************************************)
EXTENDS Integers, Sequences, FiniteSets

CONSTANTS
    Agents,      \* agents an application may name; none is one without words
    MaxAgent,    \* bytes of an agent: 256
    MaxComment   \* bytes of a comment, without its parentheses: 64

\* A word is clean if it is printable ASCII without a parenthesis within it.
Words ==
    {w \in [opens : BOOLEAN, closes : BOOLEAN, clean : BOOLEAN, product : BOOLEAN, len : Nat \ {0}] :
        w.product => ~w.opens /\ ~w.closes}

\* DEFAULT_BOT_AGENT, which is no product: it has no version.
Default ==
    << [opens |-> FALSE, closes |-> FALSE, clean |-> TRUE, product |-> FALSE, len |-> 8] >>

ASSUME AgentsAssumption == \A words \in Agents : words \in Seq(Words)
ASSUME LengthsAssumption == MaxAgent \in Nat /\ MaxComment \in Nat

VARIABLES
    named,    \* the agent the application names
    read,     \* how many of its words are in tokens
    pending,  \* a product that a comment may follow
    agent,    \* what is sent
    full,     \* a product was too long for the rest, and ends the agent
    sent      \* the agent is complete

agentVars == <<named, read, pending, agent, full, sent>>

-----------------------------------------------------------------------------
\* The columns that words take, with the blanks behind them.
Columns(words) == UNION {{i} \X (0..words[i].len) : i \in DOMAIN words}

\* The length of words, joined by blanks.
Size(words) == Cardinality(Columns(words)) - 1

\* A comment goes on to the first word that closes it, or to the end.
TokenEnd ==
    LET closing == {i \in (read + 1)..Len(named) : named[i].closes}
    IN  IF ~named[read + 1].opens THEN read + 1
        ELSE IF closing = {} THEN Len(named)
        ELSE CHOOSE i \in closing : \A j \in closing : i <= j

Token == SubSeq(named, read + 1, TokenEnd)

IsComment(words) == words[1].opens /\ words[Len(words)].closes

\* is_bot_agent_comment: not empty, not too long, no other parenthesis.
IsBotAgentComment(words) ==
    /\ Size(words) - 2 \in 1..MaxComment
    /\ \A i \in DOMAIN words : /\ words[i].clean
                               /\ words[i].opens => i = 1
                               /\ words[i].closes => i = Len(words)

\* Mutant: the blanks between the products are not counted.
FitsWithoutBlanks(item) == Size(agent \o item) - Len(agent \o item) < MaxAgent

Fits(item) == Size(agent \o item) <= MaxAgent

\* Products are put out up to the first one that does not fit.
Extended(item) == IF item # <<>> /\ ~full /\ Fits(item) THEN agent \o item ELSE agent
Overflows(item) == full \/ (item # <<>> /\ ~Fits(item))

-----------------------------------------------------------------------------
AgentInit ==
    /\ named \in Agents
    /\ read = 0
    /\ pending = <<>>
    /\ agent = <<>>
    /\ full = FALSE
    /\ sent = FALSE

\* A comment ends the product before it, and without one it is dropped.
TakeComment ==
    /\ read < Len(named)
    /\ IsComment(Token)
    /\ LET item == IF pending = <<>> THEN <<>>
                   ELSE pending \o (IF IsBotAgentComment(Token) THEN Token ELSE <<>>)
       IN  agent' = Extended(item) /\ full' = Overflows(item)
    /\ pending' = <<>>
    /\ read' = TokenEnd
    /\ UNCHANGED <<named, sent>>

\* Any other token ends it, too, and is the next one if it is a product.
TakeWord ==
    /\ read < Len(named)
    /\ ~IsComment(Token)
    /\ agent' = Extended(pending)
    /\ full' = Overflows(pending)
    /\ pending' = IF Token[1].product THEN Token ELSE <<>>
    /\ read' = TokenEnd
    /\ UNCHANGED <<named, sent>>

\* The last product is put out; without any the default is sent.
EndAgent ==
    /\ read = Len(named)
    /\ ~sent
    /\ agent' = IF Extended(pending) = <<>> THEN Default ELSE Extended(pending)
    /\ full' = Overflows(pending)
    /\ pending' = <<>>
    /\ sent' = TRUE
    /\ UNCHANGED <<named, read>>

AgentNext == TakeComment \/ TakeWord \/ EndAgent

AgentSpec == AgentInit /\ [][AgentNext]_agentVars

-----------------------------------------------------------------------------
(* Properties *)

\* Every variable stays in its domain.
AgentTypeOK ==
    /\ named \in Seq(Words) /\ read \in 0..Len(named)
    /\ pending \in Seq(Words) /\ Len(pending) <= 1 /\ \A i \in DOMAIN pending : pending[i].product
    /\ agent \in Seq(Words) /\ full \in BOOLEAN /\ sent \in BOOLEAN

\* A comment that belongs to the product before it.
Comments(words, a, b) ==
    /\ words[a - 1].product
    /\ IsComment(SubSeq(words, a, b))
    /\ IsBotAgentComment(SubSeq(words, a, b))

\* The default, or products and their comments that are not too long.
Sane(words) ==
    \/ words = Default
    \/ /\ words # <<>>
       /\ Size(words) <= MaxAgent
       /\ \A i \in DOMAIN words :
             words[i].product \/ \E a \in 2..i : \E b \in i..Len(words) : Comments(words, a, b)

\* The agent that is sent is sane, and one that is sane is sent as it is: sanitizing it
\* again changes nothing.
AgentStable == sent => Sane(agent) /\ (Sane(named) => agent = named)
=============================================================================

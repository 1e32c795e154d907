------------------------------ MODULE AgentLoop ------------------------------
(***************************************************************************)
(* One run of an agent by its adapter: the loop of the native adapter, in  *)
(* which the language model asks for tools and reads what they returned,   *)
(* as the client of its provider sends it, and the adapters that hand a    *)
(* text from one model call to the next.  Records keep the source's field  *)
(* names, since its modules do not agree on them.  Of the texts only a     *)
(* tool's result is kept; it is known by the call it is the result of.     *)
(***************************************************************************)
EXTENDS Integers, Sequences

CONSTANTS
  Tools,      \* the names a model may call
  Registered, \* those in REGISTRY
  Linked,     \* those that need a connection to an integration
  MaxIter,    \* agent.config.maxIterations
  Members,    \* agent.config.steps: how many
  Rounds,     \* agent.config.rounds
  MaxCalls,   \* bound: tool calls in one response
  MaxTokens,  \* bound: tokens of one response
  Undefined,  \* JavaScript's
  EmptyId     \* the empty string

ASSUME LoopConstants ==
  /\ Linked \subseteq Registered /\ Registered \subseteq Tools
  /\ MaxIter \in Nat \ {0} /\ Members \in Nat \ {0} /\ Rounds \in Nat \ {0}
  /\ MaxCalls \in Nat /\ MaxTokens \in Nat
  /\ Undefined \notin Nat \X Nat /\ EmptyId \notin Nat \X Nat

VARIABLES
  adapter,   \* the adapter of the agent's framework
  provider,  \* the provider of its model
  phase,     \* where the run is: at a model call, at the tools, done
  iteration, \* model calls answered
  messages,  \* the conversation
  request,   \* what of it the last model call sent
  toolCalls, \* the calls of the last response
  next,      \* the one of them that is due
  cumUsage,  \* the tokens the adapter has counted
  spent,     \* history: the tokens of every model call
  handled,   \* history: the arguments each handler got, by call
  result     \* what dispatchByType returns

loopVars == <<adapter, provider, phase, iteration, messages, request, toolCalls, next, cumUsage,
              spent, handled, result>>

Adapters  == {"llm", "crew", "chain", "remote"}
Providers == {"openai", "anthropic", "groq"}
Reasons   == {"stop", "length", "tool_calls"}

(* An object's field, where it has it.                                     *)
Field(object, name) == IF name \in DOMAIN object THEN object[name] ELSE Undefined

(* A response's tool calls as the clients build them: LLMToolCall.         *)
Asked(names) ==
  [k \in DOMAIN names |-> LET id == <<iteration + 1, k>> IN
                          [id |-> id, name |-> names[k], arguments |-> id]]
Responses == UNION {[1 .. n -> Tools] : n \in 0 .. MaxCalls}

LoopInit ==
  /\ adapter \in Adapters
  /\ provider \in Providers /\ (adapter # "llm" => provider = "openai")
  /\ phase = "call" /\ iteration = 0
  /\ messages = <<[role |-> "system"], [role |-> "user"]>>
  /\ request = <<>>
  /\ toolCalls = <<>> /\ next = 1
  /\ cumUsage = 0 /\ spent = 0
  /\ handled = {}
  /\ result = [success |-> FALSE, usage |-> 0]

(* The adapter's result, normalised: without metadata.usage it is zero.    *)
Finish(success, usage) ==
  /\ phase' = "done"
  /\ result' = [success |-> success, usage |-> usage]

-----------------------------------------------------------------------------
(* The clients of the providers.                                           *)

(* A message as it is sent.  Groq's client sends what it is given; the two *)
(* others keep what a message of its role has in LLMMessage, and the calls *)
(* of an assistant's message are not part of that.  For Anthropic a result *)
(* is a block of a user's message, and its id is called tool_use_id.       *)
Sent(m) ==
  IF provider = "groq" THEN m
  ELSE IF m.role = "tool"
       THEN [role         |-> IF provider = "anthropic" THEN "user" ELSE "tool",
             content      |-> m.content,
             tool_call_id |-> LET id == Field(m, "tool_call_id")
                              IN IF id = Undefined THEN EmptyId ELSE id]
       ELSE [role |-> m.role]

(* Anthropic's client sends the system prompt, the first message, apart.   *)
Apart == IF provider = "anthropic" THEN 1 ELSE 0

SendRequest == request' = [j \in 1 .. Len(messages) - Apart |-> Sent(messages[j + Apart])]

-----------------------------------------------------------------------------
(* runLLMAdapter                                                           *)

(* Slip: the usage of the last call in place of the sum.                   *)
LastUsage(tokens) == tokens
Added(tokens)     == cumUsage + tokens

(* Anything but a request for tools ends the run, a cut answer too.        *)
ModelAnswers ==
  /\ adapter = "llm" /\ phase = "call" /\ iteration < MaxIter
  /\ SendRequest
  /\ \E names \in Responses, reason \in Reasons, tokens \in 0 .. MaxTokens :
       /\ iteration' = iteration + 1
       /\ cumUsage' = Added(tokens) /\ spent' = spent + tokens
       /\ \/ /\ reason # "tool_calls" \/ names = <<>>
             /\ Finish(TRUE, cumUsage')
             /\ UNCHANGED <<messages, toolCalls, next>>
          \/ /\ reason = "tool_calls" /\ names # <<>>
             /\ phase' = "tools" /\ toolCalls' = Asked(names) /\ next' = 1
             /\ messages' = Append(messages, [role |-> "assistant", toolCalls |-> toolCalls'])
             /\ UNCHANGED result
  /\ UNCHANGED <<adapter, provider, handled>>

MaxIterations ==
  /\ adapter = "llm" /\ phase = "call" /\ iteration = MaxIter
  /\ Finish(FALSE, 0)
  /\ UNCHANGED <<adapter, provider, iteration, messages, request, toolCalls, next, cumUsage, spent,
                 handled>>

ToolResult(tc) == [role |-> "tool", toolCallId |-> tc.id, content |-> tc.id]
Advance ==
  /\ next' = next + 1
  /\ phase' = IF next = Len(toolCalls) THEN "call" ELSE "tools"
  /\ UNCHANGED <<adapter, provider, iteration, request, toolCalls, cumUsage, spent, result>>

(* Slip: a tool that failed has no message.                                *)
NotReported(tc) == messages
Reported(tc)    == Append(messages, ToolResult(tc))

(* executeTool throws: no such tool, or no connection. The adapter knows   *)
(* no user and passes the agent, who has no connection to anything.        *)
ToolRefused ==
  /\ phase = "tools"
  /\ LET tc == toolCalls[next] IN
       /\ tc.name \notin Registered \ Linked
       /\ messages' = Reported(tc)
  /\ Advance /\ UNCHANGED handled

(* The handler of the tool returns, or throws.                             *)
ToolHandled ==
  /\ phase = "tools"
  /\ LET tc == toolCalls[next] IN
       /\ tc.name \in Registered \ Linked
       /\ handled' = handled \cup {[call |-> tc.id, args |-> Field(tc, "args")]}
       /\ \/ messages' = Append(messages, ToolResult(tc))
          \/ messages' = Reported(tc)
  /\ Advance

-----------------------------------------------------------------------------
(* runMultiAgentAdapter, and runLangChainAdapter without the rounds.       *)

Turns == IF adapter = "crew" THEN Rounds * Members ELSE Members

(* These adapters count no tokens.                                         *)
MemberAnswers ==
  /\ adapter \in {"crew", "chain"} /\ phase = "call"
  /\ \E tokens \in 0 .. MaxTokens : spent' = spent + tokens
  /\ iteration' = iteration + 1
  /\ IF iteration' = Turns THEN Finish(TRUE, 0) ELSE UNCHANGED <<phase, result>>
  /\ UNCHANGED <<adapter, provider, messages, request, toolCalls, next, cumUsage, handled>>

(* A webhook, the Python service or an upstream URL answers the one call.  *)
RemoteAnswers ==
  /\ adapter = "remote" /\ phase = "call"
  /\ \E success \in BOOLEAN : Finish(success, 0)
  /\ UNCHANGED <<adapter, provider, iteration, messages, request, toolCalls, next, cumUsage, spent,
                 handled>>

(* A call to a model fails, before or after its request is sent: no key, a *)
(* timeout, an error of the provider; or a crew has no members.            *)
CallFails ==
  /\ phase = "call"
  /\ adapter = "llm" => iteration < MaxIter
  /\ UNCHANGED request \/ (adapter = "llm" /\ SendRequest)
  /\ Finish(FALSE, 0)
  /\ UNCHANGED <<adapter, provider, iteration, messages, toolCalls, next, cumUsage, spent, handled>>

LoopNext ==
  \/ ModelAnswers \/ MaxIterations \/ ToolRefused \/ ToolHandled
  \/ MemberAnswers \/ RemoteAnswers \/ CallFails

LoopSpec == LoopInit /\ [][LoopNext]_loopVars

-----------------------------------------------------------------------------
(* Properties.                                                             *)

(* Types of the run and its conversation.                                  *)
LoopTypeOK ==
  /\ adapter \in Adapters /\ provider \in Providers /\ phase \in {"call", "tools", "done"}
  /\ iteration \in 0 .. IF adapter = "llm" THEN MaxIter ELSE Turns
  /\ \A i \in DOMAIN messages : messages[i].role \in {"system", "user", "assistant", "tool"}
  /\ \A j \in DOMAIN request : request[j].role \in {"system", "user", "assistant", "tool"}
  /\ phase = "tools" => next \in 1 .. Len(toolCalls)
  /\ cumUsage \in Nat /\ spent \in Nat

(* What was sent of the i-th message.                                      *)
Went(i)     == i - Apart \in DOMAIN request
SentOf(i)   == request[i - Apart]
IsResult(m) == "content" \in DOMAIN m

(* Whatever tools fail, are unknown or are refused, and whoever the        *)
(* provider is, a model that is called again finds after each of its       *)
(* messages the results of the calls it made there, one each and in the    *)
(* order of the calls, and finds no other result.  It is by their order    *)
(* alone that it can tell them apart: see AnswersNameCalls.                *)
ResultsInOrder ==
  /\ \A i \in DOMAIN messages : messages[i].role = "assistant" /\ Went(i) =>
       \A k \in DOMAIN messages[i].toolCalls :
         /\ Went(i + k) /\ IsResult(SentOf(i + k))
         /\ SentOf(i + k).content = messages[i].toolCalls[k].id
  /\ \A j \in DOMAIN messages : Went(j) /\ IsResult(SentOf(j)) =>
       \E i \in DOMAIN messages :
         /\ messages[i].role = "assistant"
         /\ i < j /\ j - i <= Len(messages[i].toolCalls)

(* A run reports the tokens of all its model calls or of none: never those *)
(* of some of them, however many turns it took.                            *)
UsageAllOrNothing == phase = "done" => result.usage \in {0, spent}

(* lib/llm/types.ts: a message has a tool_call_id "for tool result         *)
(* messages".  A result that is sent to a model names the call it answers. *)
AnswersNameCalls ==
  \A j \in DOMAIN request : IsResult(request[j]) =>
    Field(request[j], "tool_call_id") = request[j].content

(* toolRegistry.ts: a handler gets the "arguments from the LLM's tool_call". *)
HandlersGetArguments == \A h \in handled : h.args = h.call
=============================================================================

----------------------------- MODULE LloHandler -----------------------------
(***************************************************************************)
(* LLOHandler: the content of large language models is taken off the       *)
(* attributes and the events of a span and put in one Gen AI event.        *)
(*                                                                         *)
(* The order of the messages in the event is left out: it is a set.  An    *)
(* event of a span is its name and its attributes.                         *)
(***************************************************************************)
EXTENDS Attributes, Integers, SequencesExt

CONSTANT Indices        \* of the indexed keys, gen_ai.prompt.{index}.content

Direct(key, role, source) == [key |-> key, roleKey |-> "", role |-> role, source |-> source]

DirectPatterns == {
  Direct("traceloop.entity.input",        "user",      "input"),
  Direct("traceloop.entity.output",       "assistant", "output"),
  Direct("crewai.crew.tasks_output",      "assistant", "output"),
  Direct("crewai.crew.result",            "assistant", "result"),
  Direct("gen_ai.prompt",                 "user",      "prompt"),
  Direct("gen_ai.completion",             "assistant", "completion"),
  Direct("gen_ai.content.revised_prompt", "system",    "prompt"),
  Direct("gen_ai.agent.actual_output",    "assistant", "output"),
  Direct("gen_ai.agent.human_input",      "user",      "input"),
  Direct("input.value",                   "user",      "input"),
  Direct("output.value",                  "assistant", "output"),
  Direct("system_prompt",                 "system",    "prompt"),
  Direct("tool.result",                   "assistant", "output"),
  Direct("llm.prompts",                   "user",      "prompt"),
  Direct("gen_ai.user.message",           "user",      "prompt"),
  Direct("gen_ai.assistant.message",      "assistant", "output"),
  Direct("gen_ai.system.message",         "system",    "prompt"),
  Direct("gen_ai.tool.message",           "tool",      "prompt"),
  Direct("gen_ai.choice",                 "assistant", "output") }

Indexed(prefix, infix, role, source) ==
  { [key |-> prefix \o ToString(i) \o infix \o ".content", roleKey |-> prefix \o ToString(i) \o infix \o ".role",
     role |-> role, source |-> source] : i \in Indices }

LloPatterns ==
  DirectPatterns
    \cup Indexed("gen_ai.prompt.",       "",         "unknown",   "prompt")
    \cup Indexed("gen_ai.completion.",   "",         "unknown",   "completion")
    \cup Indexed("llm.input_messages.",  ".message", "user",      "input")
    \cup Indexed("llm.output_messages.", ".message", "assistant", "output")

LloKeys == { p.key : p \in LloPatterns }
IsLlo(key) == key \in LloKeys

-----------------------------------------------------------------------------
(* What is collected: the attributes of the span, then event after event   *)
(* the whole event if its name is a pattern and its attributes that are;   *)
(* a key that comes again takes the place of the first.                    *)

LloOnly(attrs)  == [k \in { key \in DOMAIN attrs : IsLlo(key) } |-> attrs[k]]
Filtered(attrs) == [k \in { key \in DOMAIN attrs : ~IsLlo(key) } |-> attrs[k]]

(* The attributes of an event as one content.                              *)
EventContent(attrs) == FlattenSeq(SetToSeq({ attrs[k] : k \in DOMAIN attrs }))

OfEvent(e) == LloOnly(e.attrs) ++ (IF IsLlo(e.name) THEN Entry(e.name, EventContent(e.attrs)) ELSE <<>>)

(* Mutant: an event whose name is a pattern is not looked at.              *)
CollectedByKey(s) ==
  LET found[n \in 0..Len(s.events)] == IF n = 0 THEN LloOnly(s.attrs) ELSE LloOnly(s.events[n].attrs) ++ found[n - 1]
  IN  found[Len(s.events)]

Collected(s) ==
  LET found[n \in 0..Len(s.events)] == IF n = 0 THEN LloOnly(s.attrs) ELSE OfEvent(s.events[n]) ++ found[n - 1]
  IN  found[Len(s.events)]

-----------------------------------------------------------------------------
(* The messages, and the side of the conversation each is on.  The role of *)
(* an indexed message is looked for among what was collected.              *)

Message(p, collected) ==
  [role    |-> IF p.roleKey \in DOMAIN collected THEN collected[p.roleKey][1] ELSE p.role,
   content |-> collected[p.key],
   source  |-> p.source]

Messages(collected) == { Message(p, collected) : p \in { q \in LloPatterns : q.key \in DOMAIN collected } }
MessagesOf(s) == UNION { Messages(collected) : collected \in {Collected(s)} }

IsInput(message) ==
  \/ message.role \in {"system", "user"}
  \/ /\ message.role # "assistant"
     /\ message.source \notin {"completion", "output", "result"}

Body(messages) == { [role |-> m.role, content |-> m.content] : m \in messages }

GenAiEvent(i, s, messages) ==
  [span    |-> i,
   input   |-> Body({ m \in messages : IsInput(m) }),
   output  |-> Body({ m \in messages : ~IsInput(m) }),
   session |-> IF "session.id" \in DOMAIN s.attrs THEN s.attrs["session.id"] ELSE <<>>]

FilteredEvents(events) ==
  LET kept[n \in 0..Len(events)] ==
        IF n = 0 THEN <<>>
        ELSE IF IsLlo(events[n].name) THEN kept[n - 1]
        ELSE Append(kept[n - 1], [name |-> events[n].name, attrs |-> Filtered(events[n].attrs)])
  IN  kept[Len(events)]
=============================================================================

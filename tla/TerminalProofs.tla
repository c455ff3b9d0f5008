---------------------------- MODULE TerminalProofs ---------------------------
(* The terminal conversation and the loop of the command line tool, for any *)
(* hooks, agents, runs, servers and heartbeats. Of the conversation: a tool *)
(* that is still to run has its gate before it or is open to run; and whose *)
(* turn it is. Of the loop: a heartbeat that was told to stop adds one prompt*)
(* more at most, and where its thread is once it has added that one.        *)
EXTENDS MCTerminal, SequenceLemmas

-----------------------------------------------------------------------------
(* What a line still has to do, as a sequence: which gates stand before     *)
(* which tools, and what may be dropped from its front.                     *)

Todo == [op : StepOps, tool : Tools]

(* The tools the modes are checked for when they run.                       *)
Watched == Gating \cup {"bash"}

(* The gates of a line that end it when they refuse.                        *)
Own(l) == {l.cmd, l.tool}

(* The mode lets the tool run now.                                          *)
Open(tool) ==
    loaded => /\ mode # "plan"
              /\ (mode = "auto" /\ tool \in Watched) => tool \notin ApprovalRequired

(* A gate still to be passed decides on the tool that step i runs: the one  *)
(* right before it, or one of the line's own.                               *)
Covered(s, i, l) ==
    \/ i > 1 /\ s[i - 1].op = "gate" /\ s[i - 1].tool = s[i].tool
    \/ \E j \in 1..(i - 1) :
         /\ s[j].op = "gate" /\ s[j].tool \in Own(l)
         /\ s[i].tool \in Watched => s[i].tool = s[j].tool

Guarded(s, l) ==
    \A i \in 1..Len(s) : s[i].op = "run" => Covered(s, i, l) \/ Open(s[i].tool)

(* A gate that is not the line's own is followed by the two steps it        *)
(* guards, a tool that may return early by the step it skips, and a change  *)
(* of the mode by nothing.                                                  *)
Shaped(s, l) ==
    \A i \in 1..Len(s) :
      /\ (s[i].op = "gate" /\ s[i].tool \notin Own(l)) =>
           /\ FiresPost(s[i].tool)
           /\ i + 2 <= Len(s) /\ s[i + 1].op = "run" /\ s[i + 2].op = "post"
      /\ (s[i].op = "run" /\ ReturnsEarly(s[i].tool)) =>
           i < Len(s) /\ s[i + 1].op = "post"
      /\ (s[i].op = "run" /\ s[i].tool = "permission_set") => i = Len(s)

(* t is what is left of s without its first k steps.                        *)
Rest(s, t, k) ==
    /\ Len(t) = Len(s) - k
    /\ \A i \in 1..Len(t) : t[i] = s[i + k]

(* A sequence of tools with a gate before and a step after each.            *)
Whole(s) ==
    \A i \in 1..Len(s) :
      /\ s[i].op = "gate" =>
           /\ FiresPost(s[i].tool)
           /\ i + 2 <= Len(s) /\ s[i + 1].op = "run" /\ s[i + 2].op = "post"
      /\ s[i].op = "run" =>
           /\ FiresPost(s[i].tool)
           /\ i > 1 /\ s[i - 1].op = "gate" /\ s[i - 1].tool = s[i].tool
           /\ i < Len(s) /\ s[i + 1].op = "post"

(* What a script is before its line starts.                                 *)
Scripted(s, l) ==
    /\ s \in Seq(Todo)
    /\ Shaped(s, l)
    /\ \A i \in 1..Len(s) : s[i].op = "run" => Covered(s, i, l)

(* The steps of a line are typed, shaped and guarded; at the prompt there   *)
(* are none; and what ran under the gates was open to run.                  *)
GateInv ==
    /\ todo \in Seq(Todo)
    /\ line = None => todo = <<>>
    /\ line # None => Shaped(todo, line) /\ Guarded(todo, line)
    /\ GatedToolsNeedApproval

-----------------------------------------------------------------------------
(* A shape survives the loss of the first steps.                            *)
LEMMA ShapeLasts ==
    ASSUME NEW s \in Seq(Todo), NEW t \in Seq(Todo), NEW k \in 0..Len(s),
           Rest(s, t, k), NEW l, Shaped(s, l)
    PROVE  Shaped(t, l)
<1> SUFFICES ASSUME NEW i \in 1..Len(t)
             PROVE  /\ (t[i].op = "gate" /\ t[i].tool \notin Own(l)) =>
                         /\ FiresPost(t[i].tool)
                         /\ i + 2 <= Len(t) /\ t[i + 1].op = "run" /\ t[i + 2].op = "post"
                    /\ (t[i].op = "run" /\ ReturnsEarly(t[i].tool)) =>
                         i < Len(t) /\ t[i + 1].op = "post"
                    /\ (t[i].op = "run" /\ t[i].tool = "permission_set") => i = Len(t)
  BY DEF Shaped
<1>1. Len(s) \in Nat /\ Len(t) \in Nat
  BY LenProperties
<1>2. Len(t) = Len(s) - k /\ t[i] = s[i + k] /\ i + k \in 1..Len(s)
  BY <1>1 DEF Rest
<1>3. /\ i + 1 <= Len(t) => t[i + 1] = s[i + k + 1]
      /\ i + 2 <= Len(t) => t[i + 2] = s[i + k + 2]
  <2>1. i + 1 <= Len(t) => t[i + 1] = s[(i + 1) + k]
    BY <1>1 DEF Rest
  <2>2. i + 2 <= Len(t) => t[i + 2] = s[(i + 2) + k]
    BY <1>1 DEF Rest
  <2> QED
    BY <1>1, <2>1, <2>2
<1>4. /\ (s[i + k].op = "gate" /\ s[i + k].tool \notin Own(l)) =>
           /\ FiresPost(s[i + k].tool)
           /\ i + k + 2 <= Len(s) /\ s[i + k + 1].op = "run" /\ s[i + k + 2].op = "post"
      /\ (s[i + k].op = "run" /\ ReturnsEarly(s[i + k].tool)) =>
           i + k < Len(s) /\ s[i + k + 1].op = "post"
      /\ (s[i + k].op = "run" /\ s[i + k].tool = "permission_set") => i + k = Len(s)
  BY <1>2 DEF Shaped
<1>5. k \in Nat /\ i \in Nat /\ i <= Len(t)
  BY <1>1
<1>6. (t[i].op = "gate" /\ t[i].tool \notin Own(l)) =>
           /\ FiresPost(t[i].tool)
           /\ i + 2 <= Len(t) /\ t[i + 1].op = "run" /\ t[i + 2].op = "post"
  <2> SUFFICES ASSUME t[i].op = "gate", t[i].tool \notin Own(l)
               PROVE  /\ FiresPost(t[i].tool)
                      /\ i + 2 <= Len(t) /\ t[i + 1].op = "run" /\ t[i + 2].op = "post"
    OBVIOUS
  <2>1. /\ FiresPost(s[i + k].tool)
        /\ i + k + 2 <= Len(s) /\ s[i + k + 1].op = "run" /\ s[i + k + 2].op = "post"
    BY <1>2, <1>4
  <2>2. i + 2 <= Len(t) /\ i + 1 <= Len(t)
    BY <1>1, <1>2, <1>5, <2>1
  <2> QED
    BY <1>2, <1>3, <2>1, <2>2
<1>7. (t[i].op = "run" /\ ReturnsEarly(t[i].tool)) => i < Len(t) /\ t[i + 1].op = "post"
  <2> SUFFICES ASSUME t[i].op = "run", ReturnsEarly(t[i].tool)
               PROVE  i < Len(t) /\ t[i + 1].op = "post"
    OBVIOUS
  <2>1. i + k < Len(s) /\ s[i + k + 1].op = "post"
    BY <1>2, <1>4
  <2>2. i < Len(t) /\ i + 1 <= Len(t)
    BY <1>1, <1>2, <1>5, <2>1
  <2> QED
    BY <1>3, <2>1, <2>2
<1>8. (t[i].op = "run" /\ t[i].tool = "permission_set") => i = Len(t)
  <2> SUFFICES ASSUME t[i].op = "run", t[i].tool = "permission_set"
               PROVE  i = Len(t)
    OBVIOUS
  <2>1. i + k = Len(s) /\ Len(t) = Len(s) - k
    BY <1>2, <1>4
  <2> QED
    BY <1>1, <1>5, <2>1
<1> QED
  BY <1>6, <1>7, <1>8

(* The gates that are gone were passed, or were another tool's and gone     *)
(* with what they guard.                                                    *)
Spent(s, k, l) ==
    \A j \in 1..k : s[j].op = "gate" =>
        \/ ~loaded
        \/ CanRun(s[j].tool)
        \/ s[j].tool \notin Own(l) /\ j < k

(* So every tool that is left is still guarded, or open.                    *)
LEMMA GuardLasts ==
    ASSUME NEW s \in Seq(Todo), NEW t \in Seq(Todo), NEW k \in 0..Len(s),
           Rest(s, t, k), NEW l, Guarded(s, l), Spent(s, k, l)
    PROVE  Guarded(t, l)
<1> SUFFICES ASSUME NEW i \in 1..Len(t), t[i].op = "run", ~Open(t[i].tool)
             PROVE  Covered(t, i, l)
  BY DEF Guarded
<1>1. Len(s) \in Nat /\ Len(t) \in Nat
  BY LenProperties
<1>2. Len(t) = Len(s) - k /\ t[i] = s[i + k] /\ i + k \in 1..Len(s)
  BY <1>1 DEF Rest
<1>3. Covered(s, i + k, l)
  BY <1>2 DEF Guarded
<1>4. ASSUME NEW j \in 1..k, s[j].op = "gate", s[j].tool \in Own(l) \/ j = k,
             t[i].tool \in Watched => t[i].tool = s[j].tool
      PROVE  FALSE
  <2>1. loaded /\ ~CanRun(s[j].tool)
    BY <1>4 DEF Spent, Open, CanRun, Watched, Gating, ApprovalRequired, AlwaysAuto
  <2> QED
    BY <1>4, <2>1 DEF Spent
<1>5. CASE i + k > 1 /\ s[i + k - 1].op = "gate" /\ s[i + k - 1].tool = s[i + k].tool
  <2>1. CASE i = 1
    <3>1. k \in 1..k /\ i + k - 1 = k
      BY <1>5, <2>1
    <3> QED
      BY <1>2, <1>4, <1>5, <3>1
  <2>2. CASE i > 1
    <3>1. i - 1 \in 1..Len(t) /\ i - 1 + k = i + k - 1
      BY <1>1, <2>2
    <3>2. t[i - 1] = s[i + k - 1]
      BY <3>1 DEF Rest
    <3> QED
      BY <1>2, <1>5, <2>2, <3>2 DEF Covered
  <2> QED
    BY <1>1, <2>1, <2>2
<1>6. CASE \E j \in 1..(i + k - 1) :
              /\ s[j].op = "gate" /\ s[j].tool \in Own(l)
              /\ s[i + k].tool \in Watched => s[i + k].tool = s[j].tool
  <2>1. PICK j \in 1..(i + k - 1) :
              /\ s[j].op = "gate" /\ s[j].tool \in Own(l)
              /\ s[i + k].tool \in Watched => s[i + k].tool = s[j].tool
    BY <1>6
  <2>2. CASE j <= k
    <3>1. j \in 1..k
      BY <2>2
    <3> QED
      BY <1>2, <1>4, <2>1, <3>1
  <2>3. CASE j > k
    <3>1. j - k \in 1..(i - 1) /\ j - k \in 1..Len(t) /\ (j - k) + k = j
      BY <1>1, <2>3
    <3>2. t[j - k] = s[j]
      BY <3>1 DEF Rest
    <3> QED
      BY <1>2, <2>1, <3>1, <3>2 DEF Covered
  <2> QED
    BY <1>1, <2>2, <2>3
<1> QED
  BY <1>3, <1>5, <1>6 DEF Covered

-----------------------------------------------------------------------------
(* The steps of one tool: its own gate, the run, the step after it.         *)
LEMMA StepsAre ==
    ASSUME NEW tool \in Tools
    PROVE  /\ Steps(tool) \in Seq(Todo)
           /\ FiresPost(tool) =>
                /\ Len(Steps(tool)) = 3
                /\ Steps(tool)[1] = Step("gate", tool)
                /\ Steps(tool)[2] = Step("run", tool)
                /\ Steps(tool)[3] = Step("post", tool)
           /\ (tool \in Gating /\ ~FiresPost(tool)) =>
                /\ Len(Steps(tool)) = 2
                /\ Steps(tool)[1] = Step("gate", tool)
                /\ Steps(tool)[2] = Step("run", tool)
           /\ tool \notin Gating =>
                /\ Len(Steps(tool)) = 1
                /\ Steps(tool)[1] = Step("run", tool)
<1> DEFINE g == IF tool \in Gating THEN <<Step("gate", tool)>> ELSE <<>>
           r == <<Step("run", tool)>>
           p == IF FiresPost(tool) THEN <<Step("post", tool)>> ELSE <<>>
<1>1. /\ Step("gate", tool) \in Todo /\ Step("run", tool) \in Todo
      /\ Step("post", tool) \in Todo
  BY DEF Step, Todo, StepOps
<1>2. /\ g \in Seq(Todo) /\ r \in Seq(Todo) /\ p \in Seq(Todo)
      /\ Len(r) = 1 /\ r[1] = Step("run", tool)
  BY <1>1
<1>3. tool \in Gating => Len(g) = 1 /\ g[1] = Step("gate", tool)
  BY <1>1
<1>4. tool \notin Gating => Len(g) = 0
  OBVIOUS
<1>5. FiresPost(tool) => Len(p) = 1 /\ p[1] = Step("post", tool)
  BY <1>1
<1>6. ~FiresPost(tool) => Len(p) = 0
  OBVIOUS
<1>7. FiresPost(tool) => tool \in Gating
  BY DEF FiresPost
<1>8. Steps(tool) = (g \o r) \o p
  BY DEF Steps
<1> HIDE DEF g, r, p
<1>9. /\ g \o r \in Seq(Todo) /\ Len(g \o r) = Len(g) + 1
      /\ \A i \in 1..Len(g) + 1 : (g \o r)[i] = IF i <= Len(g) THEN g[i] ELSE r[i - Len(g)]
  <2>1. /\ g \o r \in Seq(Todo) /\ Len(g \o r) = Len(g) + Len(r)
        /\ \A i \in 1..Len(g) + Len(r) : (g \o r)[i] = IF i <= Len(g) THEN g[i] ELSE r[i - Len(g)]
    BY <1>2, ConcatProperties
  <2> QED
    BY <1>2, <2>1
<1>10. /\ Steps(tool) \in Seq(Todo) /\ Len(Steps(tool)) = Len(g) + 1 + Len(p)
       /\ \A i \in 1..Len(g) + 1 + Len(p) :
            Steps(tool)[i] = IF i <= Len(g) + 1 THEN (g \o r)[i] ELSE p[i - (Len(g) + 1)]
  <2> DEFINE q == g \o r
  <2>1. q \in Seq(Todo) /\ Len(q) = Len(g) + 1
    BY <1>9
  <2> HIDE DEF q
  <2>2. /\ q \o p \in Seq(Todo) /\ Len(q \o p) = Len(q) + Len(p)
        /\ \A i \in 1..Len(q) + Len(p) : (q \o p)[i] = IF i <= Len(q) THEN q[i] ELSE p[i - Len(q)]
    BY <1>2, <2>1, ConcatProperties
  <2>3. Steps(tool) = q \o p
    BY <1>8 DEF q
  <2>4. /\ Steps(tool) \in Seq(Todo) /\ Len(Steps(tool)) = Len(g) + 1 + Len(p)
        /\ \A i \in 1..Len(g) + 1 + Len(p) :
            Steps(tool)[i] = IF i <= Len(g) + 1 THEN q[i] ELSE p[i - (Len(g) + 1)]
    BY <2>1, <2>2, <2>3
  <2> QED
    BY <2>4 DEF q
<1>11. CASE FiresPost(tool)
  BY <1>2, <1>3, <1>5, <1>7, <1>9, <1>10, <1>11
<1>12. CASE tool \in Gating /\ ~FiresPost(tool)
  BY <1>2, <1>3, <1>6, <1>9, <1>10, <1>12
<1>13. CASE tool \notin Gating
  BY <1>2, <1>4, <1>6, <1>7, <1>9, <1>10, <1>13
<1> QED
  BY <1>10, <1>11, <1>12, <1>13

(* A tool with a gate before it and a step after it is whole, and so are    *)
(* several, one after the other.                                            *)
LEMMA StepsWhole ==
    ASSUME NEW tool \in Tools, FiresPost(tool)
    PROVE  Steps(tool) \in Seq(Todo) /\ Whole(Steps(tool))
<1>1. /\ Steps(tool) \in Seq(Todo) /\ Len(Steps(tool)) = 3
      /\ Steps(tool)[1] = Step("gate", tool)
      /\ Steps(tool)[2] = Step("run", tool)
      /\ Steps(tool)[3] = Step("post", tool)
  BY StepsAre
<1>2. ASSUME NEW i \in 1..3 PROVE i = 1 \/ i = 2 \/ i = 3
  OBVIOUS
<1>3. /\ Steps(tool)[1].op = "gate" /\ Steps(tool)[1].tool = tool
      /\ Steps(tool)[2].op = "run" /\ Steps(tool)[2].tool = tool
      /\ Steps(tool)[3].op = "post"
  BY <1>1 DEF Step
<1> QED
  BY <1>1, <1>2, <1>3 DEF Whole

(* Two whole sequences are one.                                            *)
LEMMA WholeConcat ==
    ASSUME NEW s \in Seq(Todo), NEW t \in Seq(Todo), Whole(s), Whole(t)
    PROVE  s \o t \in Seq(Todo) /\ Whole(s \o t)
<1> DEFINE u == s \o t
<1>1. /\ u \in Seq(Todo) /\ Len(u) = Len(s) + Len(t)
      /\ \A i \in 1..Len(s) + Len(t) : u[i] = IF i <= Len(s) THEN s[i] ELSE t[i - Len(s)]
  BY ConcatProperties
<1>2. Len(s) \in Nat /\ Len(t) \in Nat
  BY LenProperties
<1> HIDE DEF u
<1>3. ASSUME NEW i \in 1..Len(u)
      PROVE  /\ u[i].op = "gate" =>
                  /\ FiresPost(u[i].tool)
                  /\ i + 2 <= Len(u) /\ u[i + 1].op = "run" /\ u[i + 2].op = "post"
             /\ u[i].op = "run" =>
                  /\ FiresPost(u[i].tool)
                  /\ i > 1 /\ u[i - 1].op = "gate" /\ u[i - 1].tool = u[i].tool
                  /\ i < Len(u) /\ u[i + 1].op = "post"
  <2>1. CASE i <= Len(s)
    <3>1. i \in 1..Len(s) /\ u[i] = s[i]
      BY <1>1, <1>2, <2>1
    <3>2. i > 1 => u[i - 1] = s[i - 1]
      BY <1>1, <1>2, <2>1
    <3>3. i + 1 <= Len(s) => u[i + 1] = s[i + 1]
      BY <1>1, <1>2
    <3>4. i + 2 <= Len(s) => u[i + 2] = s[i + 2]
      BY <1>1, <1>2
    <3>5. s[i].op = "gate" =>
                  /\ FiresPost(s[i].tool)
                  /\ i + 2 <= Len(s) /\ s[i + 1].op = "run" /\ s[i + 2].op = "post"
      BY <3>1 DEF Whole
    <3>6. s[i].op = "run" =>
                  /\ FiresPost(s[i].tool)
                  /\ i > 1 /\ s[i - 1].op = "gate" /\ s[i - 1].tool = s[i].tool
                  /\ i < Len(s) /\ s[i + 1].op = "post"
      BY <3>1 DEF Whole
    <3> QED
      BY <1>1, <1>2, <3>1, <3>2, <3>3, <3>4, <3>5, <3>6
  <2>2. CASE i > Len(s)
    <3> DEFINE j == i - Len(s)
    <3>1. j \in 1..Len(t) /\ u[i] = t[j] /\ i = j + Len(s)
      BY <1>1, <1>2, <2>2
    <3>2. j > 1 => i > 1 /\ u[i - 1] = t[j - 1]
      BY <1>1, <1>2, <2>2
    <3>3. j + 1 <= Len(t) => i + 1 <= Len(u) /\ u[i + 1] = t[j + 1]
      BY <1>1, <1>2, <2>2
    <3>4. j + 2 <= Len(t) => i + 2 <= Len(u) /\ u[i + 2] = t[j + 2]
      BY <1>1, <1>2, <2>2
    <3> HIDE DEF j
    <3>5. t[j].op = "gate" =>
                  /\ FiresPost(t[j].tool)
                  /\ j + 2 <= Len(t) /\ t[j + 1].op = "run" /\ t[j + 2].op = "post"
      BY <3>1 DEF Whole
    <3>6. t[j].op = "run" =>
                  /\ FiresPost(t[j].tool)
                  /\ j > 1 /\ t[j - 1].op = "gate" /\ t[j - 1].tool = t[j].tool
                  /\ j < Len(t) /\ t[j + 1].op = "post"
      BY <3>1 DEF Whole
    <3>7. i < Len(u) <=> j < Len(t)
      BY <1>1, <1>2, <3>1
    <3>8. j < Len(t) => j + 1 <= Len(t)
      BY <1>2, <3>1
    <3> QED
      BY <3>1, <3>2, <3>3, <3>4, <3>5, <3>6, <3>7, <3>8
  <2> QED
    BY <1>1, <1>2, <2>1, <2>2
<1> QED
  BY <1>1, <1>3 DEF Whole, u

(* The names of the tools a turn uses.                                      *)
LEMMA TurnTools ==
    "search_codebase" \in Tools /\ "search_kovanica_docs" \in Tools
    /\ "query_node_api" \in Tools /\ "chat" \in Tools
<1>1. ASSUME NEW x \in Gating PROVE x \in Tools
  BY DEF Tools
<1>2. "search_codebase" \in Gating /\ "search_kovanica_docs" \in Gating
      /\ "query_node_api" \in Gating
  BY DEF Gating
<1>3. "chat" \in DOMAIN Commands
  BY DEF Commands
<1>4. "chat" \in Tools
  BY <1>3 DEF Tools
<1> QED
  BY <1>1, <1>2, <1>4

(* The searches of a turn and of an explanation.                            *)
LEMMA SearchesWhole == Searches \in Seq(Todo) /\ Whole(Searches)
<1>1. FiresPost("search_codebase") /\ FiresPost("search_kovanica_docs")
  BY DEF FiresPost, Gating
<1>2. "search_codebase" \in Tools /\ "search_kovanica_docs" \in Tools
  BY TurnTools
<1> QED
  BY <1>1, <1>2, StepsWhole, WholeConcat DEF Searches

(* A turn of the conversation, as a command or typed.                       *)
LEMMA ChatWhole ==
    ASSUME NEW live \in BOOLEAN
    PROVE  ChatSteps(live) \in Seq(Todo) /\ Whole(ChatSteps(live))
<1>1. FiresPost("query_node_api")
  BY DEF FiresPost, Gating
<1>2. Steps("query_node_api") \in Seq(Todo) /\ Whole(Steps("query_node_api"))
  <2>1. "query_node_api" \in Tools
    BY TurnTools
  <2> QED
    BY <1>1, <2>1, StepsWhole
<1> DEFINE n == IF live THEN Steps("query_node_api") ELSE <<>>
           m == <<Step("llm", "chat")>>
<1>3. n \in Seq(Todo) /\ Whole(n)
  <2>1. <<>> \in Seq(Todo) /\ Whole(<<>>)
    BY DEF Whole
  <2> QED
    BY <1>2, <2>1
<1>4. m \in Seq(Todo) /\ Whole(m)
  <2>1. Step("llm", "chat") \in Todo /\ Step("llm", "chat").op = "llm"
    <3>1. "chat" \in Tools
      BY TurnTools
    <3> QED
      BY <3>1 DEF Step, Todo, StepOps
  <2>2. m \in Seq(Todo) /\ Len(m) = 1 /\ m[1].op = "llm"
    BY <2>1
  <2>3. \A i \in 1..Len(m) : m[i].op = "llm"
    BY <2>2
  <2> QED
    BY <2>2, <2>3 DEF Whole
<1>5. ChatSteps(live) = (Searches \o n) \o m
  BY DEF ChatSteps
<1> HIDE DEF n, m
<1>6. Searches \o n \in Seq(Todo) /\ Whole(Searches \o n)
  BY <1>3, SearchesWhole, WholeConcat
<1> QED
  BY <1>4, <1>5, <1>6, WholeConcat

-----------------------------------------------------------------------------
(* What the commands and their tools are called.                            *)
LEMMA CommandNames ==
    ASSUME NEW cmd \in DOMAIN Commands, NEW tool \in Commands[cmd]
    PROVE  /\ cmd \in Words /\ cmd \in Tools /\ tool \in Tools /\ cmd # "say"
           /\ tool = "bash" => cmd = "bash"
           /\ cmd = "explain" => tool = "explain_concept"
<1>1. cmd \in {"glob", "grep", "read", "bash", "cargo", "kovanica", "node", "diff",
               "explain", "search", "task", "session", "memory", "hooks", "subagent",
               "mcp", "gh", "permission", "chat"}
  BY DEF Commands
<1>2. cmd # "say"
  BY <1>1
<1>3. cmd \in Words
  BY DEF Words
<1>4. cmd \in Tools /\ tool \in Tools
  BY DEF Tools
<1>5. /\ tool = "bash" => cmd = "bash"
      /\ cmd = "explain" => tool = "explain_concept"
  BY DEF Commands
<1> QED
  BY <1>2, <1>3, <1>4, <1>5

(* The line's own gates, and then gated tools, are a script.                *)
LEMMA GatesThenWhole ==
    ASSUME NEW a \in Seq(Todo), NEW b \in Seq(Todo), NEW l, Whole(b),
           \A i \in 1..Len(a) : a[i].op = "gate" /\ a[i].tool \in Own(l)
    PROVE  /\ Scripted(a \o b, l)
           /\ \A i \in 1..Len(a \o b) : (a \o b)[i].op = "run" => FiresPost((a \o b)[i].tool)
           /\ Len(a) <= Len(a \o b) /\ \A i \in 1..Len(a) : (a \o b)[i] = a[i]
<1> DEFINE s == a \o b
<1>1. /\ s \in Seq(Todo) /\ Len(s) = Len(a) + Len(b)
      /\ \A i \in 1..Len(a) + Len(b) : s[i] = IF i <= Len(a) THEN a[i] ELSE b[i - Len(a)]
  BY ConcatProperties
<1>2. Len(a) \in Nat /\ Len(b) \in Nat
  BY LenProperties
<1>3. Len(a) <= Len(s) /\ \A i \in 1..Len(a) : s[i] = a[i]
  BY <1>1, <1>2
<1> HIDE DEF s
<1>4. ASSUME NEW i \in 1..Len(s)
      PROVE  /\ (s[i].op = "gate" /\ s[i].tool \notin Own(l)) =>
                  /\ FiresPost(s[i].tool)
                  /\ i + 2 <= Len(s) /\ s[i + 1].op = "run" /\ s[i + 2].op = "post"
             /\ s[i].op = "run" =>
                  /\ FiresPost(s[i].tool)
                  /\ i > 1 /\ s[i - 1].op = "gate" /\ s[i - 1].tool = s[i].tool
                  /\ i < Len(s) /\ s[i + 1].op = "post"
  <2>1. CASE i <= Len(a)
    <3>1. i \in 1..Len(a) /\ s[i] = a[i]
      BY <1>1, <1>2, <2>1
    <3>2. s[i].op = "gate" /\ s[i].tool \in Own(l)
      BY <3>1
    <3> QED
      BY <3>2
  <2>2. CASE i > Len(a)
    <3> DEFINE j == i - Len(a)
    <3>1. j \in 1..Len(b) /\ s[i] = b[j] /\ i = j + Len(a)
      BY <1>1, <1>2, <2>2
    <3>2. j > 1 => i > 1 /\ s[i - 1] = b[j - 1]
      BY <1>1, <1>2, <2>2
    <3>3. j + 1 <= Len(b) => i + 1 <= Len(s) /\ s[i + 1] = b[j + 1]
      BY <1>1, <1>2, <2>2
    <3>4. j + 2 <= Len(b) => i + 2 <= Len(s) /\ s[i + 2] = b[j + 2]
      BY <1>1, <1>2, <2>2
    <3> HIDE DEF j
    <3>5. b[j].op = "gate" =>
                  /\ FiresPost(b[j].tool)
                  /\ j + 2 <= Len(b) /\ b[j + 1].op = "run" /\ b[j + 2].op = "post"
      BY <3>1 DEF Whole
    <3>6. b[j].op = "run" =>
                  /\ FiresPost(b[j].tool)
                  /\ j > 1 /\ b[j - 1].op = "gate" /\ b[j - 1].tool = b[j].tool
                  /\ j < Len(b) /\ b[j + 1].op = "post"
      BY <3>1 DEF Whole
    <3>7. i < Len(s) <=> j < Len(b)
      BY <1>1, <1>2, <3>1
    <3>8. j < Len(b) => j + 1 <= Len(b)
      BY <1>2, <3>1
    <3>9. j + 2 <= Len(b) => j + 1 <= Len(b)
      BY <1>2, <3>1
    <3> QED
      BY <3>1, <3>2, <3>3, <3>4, <3>5, <3>6, <3>7, <3>8, <3>9
  <2> QED
    BY <1>1, <1>2, <2>1, <2>2
<1>5. ASSUME NEW tool, FiresPost(tool) PROVE tool # "permission_set"
  BY <1>5 DEF FiresPost, Gating
<1>6. Shaped(s, l)
  BY <1>4, <1>5 DEF Shaped
<1>7. \A i \in 1..Len(s) : s[i].op = "run" => Covered(s, i, l)
  BY <1>4 DEF Covered
<1> QED
  BY <1>1, <1>3, <1>4, <1>6, <1>7 DEF Scripted, s

(* A script may end with a tool that one of its own gates guards.           *)
LEMMA ScriptThenTool ==
    ASSUME NEW a \in Seq(Todo), NEW l, NEW tool \in Tools, NEW g \in 1..Len(a),
           Scripted(a, l), tool # "permission_set",
           a[g].op = "gate", a[g].tool = tool, tool \in Own(l),
           \A i \in 1..Len(a) : a[i].op = "run" => a[i].tool # "permission_set"
    PROVE  Scripted(a \o <<Step("run", tool), Step("post", tool)>>, l)
<1> DEFINE b == <<Step("run", tool), Step("post", tool)>>
           s == a \o b
<1>1. Step("run", tool) \in Todo /\ Step("post", tool) \in Todo
  BY DEF Step, Todo, StepOps
<1>2. b \in Seq(Todo) /\ Len(b) = 2 /\ b[1] = Step("run", tool) /\ b[2] = Step("post", tool)
  BY <1>1
<1> HIDE DEF b
<1>3. /\ s \in Seq(Todo) /\ Len(s) = Len(a) + Len(b)
      /\ \A i \in 1..Len(a) + Len(b) : s[i] = IF i <= Len(a) THEN a[i] ELSE b[i - Len(a)]
  BY <1>2, ConcatProperties
<1>4. Len(a) \in Nat
  BY LenProperties
<1> HIDE DEF s
<1>5. Len(s) = Len(a) + 2 /\ \A i \in 1..Len(a) : s[i] = a[i]
  BY <1>2, <1>3, <1>4
<1>6. s[Len(a) + 1] = Step("run", tool) /\ s[Len(a) + 2] = Step("post", tool)
  <2>1. s[Len(a) + 1] = b[1] /\ s[Len(a) + 2] = b[2]
    BY <1>2, <1>3, <1>4
  <2> QED
    BY <1>2, <2>1
<1>7. /\ s[Len(a) + 1].op = "run" /\ s[Len(a) + 1].tool = tool
      /\ s[Len(a) + 2].op = "post"
  BY <1>6 DEF Step
<1>8. ASSUME NEW i \in 1..Len(s)
      PROVE  \/ i \in 1..Len(a) /\ s[i] = a[i]
             \/ i = Len(a) + 1
             \/ i = Len(a) + 2
  BY <1>4, <1>5
<1>9. Shaped(s, l)
  <2> SUFFICES ASSUME NEW i \in 1..Len(s)
               PROVE  /\ (s[i].op = "gate" /\ s[i].tool \notin Own(l)) =>
                           /\ FiresPost(s[i].tool)
                           /\ i + 2 <= Len(s) /\ s[i + 1].op = "run" /\ s[i + 2].op = "post"
                      /\ (s[i].op = "run" /\ ReturnsEarly(s[i].tool)) =>
                           i < Len(s) /\ s[i + 1].op = "post"
                      /\ (s[i].op = "run" /\ s[i].tool = "permission_set") => i = Len(s)
    BY DEF Shaped
  <2>1. CASE i \in 1..Len(a) /\ s[i] = a[i]
    <3>1. /\ (a[i].op = "gate" /\ a[i].tool \notin Own(l)) =>
                /\ FiresPost(a[i].tool)
                /\ i + 2 <= Len(a) /\ a[i + 1].op = "run" /\ a[i + 2].op = "post"
          /\ (a[i].op = "run" /\ ReturnsEarly(a[i].tool)) =>
                i < Len(a) /\ a[i + 1].op = "post"
      BY <2>1 DEF Scripted, Shaped
    <3>2. i + 1 <= Len(a) => s[i + 1] = a[i + 1]
      BY <1>4, <1>5, <2>1
    <3>3. i + 2 <= Len(a) => s[i + 2] = a[i + 2] /\ i + 1 <= Len(a)
      BY <1>4, <1>5, <2>1
    <3>4. i < Len(a) => i + 1 <= Len(a) /\ i < Len(s)
      BY <1>4, <1>5, <2>1
    <3>5. i + 2 <= Len(a) => i + 2 <= Len(s)
      BY <1>4, <1>5, <2>1
    <3> QED
      BY <2>1, <3>1, <3>2, <3>3, <3>4, <3>5
  <2>2. CASE i = Len(a) + 1
    <3>1. i < Len(s) /\ i + 1 = Len(a) + 2
      BY <1>4, <1>5, <2>2
    <3> QED
      BY <1>7, <2>2, <3>1
  <2>3. CASE i = Len(a) + 2
    BY <1>7, <2>3
  <2> QED
    BY <1>8, <2>1, <2>2, <2>3
<1>10. ASSUME NEW i \in 1..Len(s), s[i].op = "run" PROVE Covered(s, i, l)
  <2>1. CASE i \in 1..Len(a) /\ s[i] = a[i]
    <3>1. Covered(a, i, l)
      BY <1>10, <2>1 DEF Scripted
    <3>2. ASSUME NEW j \in 1..(i - 1) PROVE s[j] = a[j]
      BY <1>4, <1>5, <2>1
    <3>3. i > 1 => s[i - 1] = a[i - 1]
      BY <1>4, <1>5, <2>1
    <3> QED
      BY <2>1, <3>1, <3>2, <3>3 DEF Covered
  <2>2. CASE i = Len(a) + 1
    <3>1. g \in 1..(i - 1) /\ s[g] = a[g]
      BY <1>4, <1>5, <2>2
    <3> QED
      BY <1>7, <2>2, <3>1 DEF Covered
  <2>3. CASE i = Len(a) + 2
    BY <1>7, <1>10, <2>3
  <2> QED
    BY <1>8, <2>1, <2>2, <2>3
<1> QED
  BY <1>3, <1>9, <1>10 DEF Scripted, s, b

(* A command of one tool: the command's gate, then the tool's steps.        *)
LEMMA GateThenSteps ==
    ASSUME NEW cmd \in Tools, NEW tool \in Tools, tool = "bash" => cmd = "bash",
           NEW l, Own(l) = {cmd, tool}
    PROVE  Scripted(<<Step("gate", cmd)>> \o Steps(tool), l)
<1> DEFINE a == <<Step("gate", cmd)>>
           b == Steps(tool)
           s == a \o b
<1>1. a \in Seq(Todo) /\ Len(a) = 1 /\ a[1] = Step("gate", cmd)
  <2>1. Step("gate", cmd) \in Todo
    BY DEF Step, Todo, StepOps
  <2> QED
    BY <2>1
<1>2. b \in Seq(Todo) /\ Len(b) \in Nat
  BY StepsAre, LenProperties
<1> HIDE DEF a, b
<1>3. /\ s \in Seq(Todo) /\ Len(s) = Len(a) + Len(b)
      /\ \A i \in 1..Len(a) + Len(b) : s[i] = IF i <= Len(a) THEN a[i] ELSE b[i - Len(a)]
  BY <1>1, <1>2, ConcatProperties
<1> HIDE DEF s
<1>4. Len(s) = 1 + Len(b) /\ s[1] = Step("gate", cmd) /\ \A j \in 1..Len(b) : s[j + 1] = b[j]
  <2>1. Len(s) = 1 + Len(b) /\ s[1] = a[1]
    BY <1>1, <1>2, <1>3
  <2>2. ASSUME NEW j \in 1..Len(b) PROVE s[j + 1] = b[j]
    BY <1>1, <1>2, <1>3
  <2> QED
    BY <1>1, <2>1, <2>2
<1>5. s[1].op = "gate" /\ s[1].tool = cmd
  BY <1>4 DEF Step
<1>6. CASE FiresPost(tool)
  <2>1. Len(b) = 3 /\ b[1] = Step("gate", tool) /\ b[2] = Step("run", tool)
        /\ b[3] = Step("post", tool)
    BY <1>6, StepsAre DEF b
  <2>2. Len(s) = 4 /\ s[2] = Step("gate", tool) /\ s[3] = Step("run", tool)
        /\ s[4] = Step("post", tool)
    BY <1>4, <2>1
  <2>3. /\ s[2].op = "gate" /\ s[2].tool = tool
        /\ s[3].op = "run" /\ s[3].tool = tool /\ s[4].op = "post"
    BY <2>2 DEF Step
  <2>4. ASSUME NEW i \in 1..Len(s) PROVE i = 1 \/ i = 2 \/ i = 3 \/ i = 4
    BY <2>2
  <2>5. tool # "permission_set"
    BY <1>6 DEF FiresPost, Gating
  <2>6. Shaped(s, l)
    BY <1>5, <2>2, <2>3, <2>4, <2>5 DEF Shaped
  <2>7. \A i \in 1..Len(s) : s[i].op = "run" => Covered(s, i, l)
    <3>1. Covered(s, 3, l)
      BY <2>3 DEF Covered
    <3> QED
      BY <1>5, <2>3, <2>4, <3>1
  <2> QED
    BY <1>3, <2>6, <2>7 DEF Scripted, s, a, b
<1>7. CASE tool \in Gating /\ ~FiresPost(tool)
  <2>1. Len(b) = 2 /\ b[1] = Step("gate", tool) /\ b[2] = Step("run", tool)
    BY <1>7, StepsAre DEF b
  <2>2. Len(s) = 3 /\ s[2] = Step("gate", tool) /\ s[3] = Step("run", tool)
    BY <1>4, <2>1
  <2>3. /\ s[2].op = "gate" /\ s[2].tool = tool
        /\ s[3].op = "run" /\ s[3].tool = tool
    BY <2>2 DEF Step
  <2>4. ASSUME NEW i \in 1..Len(s) PROVE i = 1 \/ i = 2 \/ i = 3
    BY <2>2
  <2>5. ~ReturnsEarly(tool)
    BY <1>7 DEF FiresPost, ReturnsEarly
  <2>6. Shaped(s, l)
    BY <1>5, <2>2, <2>3, <2>4, <2>5 DEF Shaped
  <2>7. \A i \in 1..Len(s) : s[i].op = "run" => Covered(s, i, l)
    <3>1. Covered(s, 3, l)
      BY <2>3 DEF Covered
    <3> QED
      BY <1>5, <2>3, <2>4, <3>1
  <2> QED
    BY <1>3, <2>6, <2>7 DEF Scripted, s, a, b
<1>8. CASE tool \notin Gating
  <2>1. Len(b) = 1 /\ b[1] = Step("run", tool)
    BY <1>8, StepsAre DEF b
  <2>2. Len(s) = 2 /\ s[2] = Step("run", tool)
    BY <1>4, <2>1
  <2>3. s[2].op = "run" /\ s[2].tool = tool
    BY <2>2 DEF Step
  <2>4. ASSUME NEW i \in 1..Len(s) PROVE i = 1 \/ i = 2
    BY <2>2
  <2>5. ~ReturnsEarly(tool)
    BY <1>8 DEF ReturnsEarly
  <2>6. Shaped(s, l)
    BY <1>5, <2>2, <2>3, <2>4, <2>5 DEF Shaped
  <2>7. \A i \in 1..Len(s) : s[i].op = "run" => Covered(s, i, l)
    <3>1. tool \in Watched => tool = cmd
      BY <1>8 DEF Watched
    <3>2. 1 \in 1..(2 - 1)
      OBVIOUS
    <3>3. Covered(s, 2, l)
      BY <1>5, <2>3, <3>1, <3>2 DEF Covered
    <3> QED
      BY <1>5, <2>3, <2>4, <3>3
  <2> QED
    BY <1>3, <2>6, <2>7 DEF Scripted, s, a, b
<1> QED
  BY <1>6, <1>7, <1>8

(* Every command's script is one.                                           *)
LEMMA ScriptsAre ==
    ASSUME NEW cmd \in DOMAIN Commands, NEW tool \in Commands[cmd],
           NEW l, l.cmd = cmd, l.tool = tool, NEW live \in BOOLEAN
    PROVE  Scripted(Script(cmd, tool, live), l)
<1>1. /\ cmd \in Tools /\ tool \in Tools
      /\ tool = "bash" => cmd = "bash"
      /\ cmd = "explain" => tool = "explain_concept"
  BY CommandNames
<1>2. Own(l) = {cmd, tool}
  BY DEF Own
<1>3. Step("gate", cmd) \in Todo /\ Step("gate", tool) \in Todo
  BY <1>1 DEF Step, Todo, StepOps
<1>4. CASE cmd = "chat"
  <2> DEFINE a == <<Step("gate", cmd)>>
  <2>1. a \in Seq(Todo) /\ Len(a) = 1 /\ a[1] = Step("gate", cmd)
    BY <1>3
  <2>2. \A i \in 1..Len(a) : a[i].op = "gate" /\ a[i].tool \in Own(l)
    BY <1>2, <2>1 DEF Step
  <2>3. Script(cmd, tool, live) = a \o ChatSteps(live)
    BY <1>4 DEF Script
  <2> HIDE DEF a
  <2> QED
    BY <2>1, <2>2, <2>3, ChatWhole, GatesThenWhole
<1>5. CASE cmd = "explain"
  <2> DEFINE a == <<Step("gate", cmd), Step("gate", tool)>>
  <2>1. a \in Seq(Todo) /\ Len(a) = 2 /\ a[1] = Step("gate", cmd) /\ a[2] = Step("gate", tool)
    BY <1>3
  <2>2. \A i \in 1..Len(a) : a[i].op = "gate" /\ a[i].tool \in Own(l)
    <3>1. ASSUME NEW i \in 1..Len(a) PROVE i = 1 \/ i = 2
      BY <2>1
    <3>2. a[1].op = "gate" /\ a[1].tool = cmd /\ a[2].op = "gate" /\ a[2].tool = tool
      BY <2>1 DEF Step
    <3> QED
      BY <1>2, <3>1, <3>2
  <2>3. Script(cmd, tool, live) = (a \o Searches) \o <<Step("run", tool), Step("post", tool)>>
    BY <1>5 DEF Script
  <2> HIDE DEF a
  <2> DEFINE s == a \o Searches
  <2>4. /\ Scripted(s, l)
        /\ \A i \in 1..Len(s) : s[i].op = "run" => FiresPost(s[i].tool)
        /\ Len(a) <= Len(s) /\ \A i \in 1..Len(a) : s[i] = a[i]
    BY <2>1, <2>2, SearchesWhole, GatesThenWhole
  <2>5. Script(cmd, tool, live) = s \o <<Step("run", tool), Step("post", tool)>>
    BY <2>3
  <2> HIDE DEF s
  <2>6. s \in Seq(Todo) /\ Len(s) \in Nat
    BY <2>4, LenProperties DEF Scripted
  <2>7. 2 \in 1..Len(s) /\ s[2].op = "gate" /\ s[2].tool = tool
    <3>1. 2 \in 1..Len(s) /\ s[2] = a[2]
      BY <2>1, <2>4, <2>6
    <3> QED
      BY <2>1, <3>1 DEF Step
  <2>8. ASSUME NEW t, FiresPost(t) PROVE t # "permission_set"
    BY <2>8 DEF FiresPost, Gating
  <2>9. \A i \in 1..Len(s) : s[i].op = "run" => s[i].tool # "permission_set"
    BY <2>4, <2>8
  <2>10. tool # "permission_set" /\ tool \in Own(l)
    BY <1>1, <1>2, <1>5
  <2> QED
    BY <1>1, <2>4, <2>5, <2>6, <2>7, <2>9, <2>10, ScriptThenTool
<1>6. CASE cmd # "chat" /\ cmd # "explain"
  <2>1. Script(cmd, tool, live) = <<Step("gate", cmd)>> \o Steps(tool)
    BY <1>6 DEF Script
  <2> QED
    BY <1>1, <1>2, <2>1, GateThenSteps
<1> QED
  BY <1>4, <1>5, <1>6

-----------------------------------------------------------------------------
(* What is left after some steps is shaped and guarded as before.           *)
LEMMA RestKept ==
    ASSUME NEW s \in Seq(Todo), NEW k \in 0..Len(s), NEW l,
           Shaped(s, l), Guarded(s, l), Spent(s, k, l)
    PROVE  LET t == SubSeq(s, k + 1, Len(s))
           IN  t \in Seq(Todo) /\ Shaped(t, l) /\ Guarded(t, l)
<1> DEFINE t == SubSeq(s, k + 1, Len(s))
<1>1. Len(s) \in Nat /\ \A i \in 1..Len(s) : s[i] \in Todo
  BY LenProperties, ElementOfSeq
<1>2. /\ t \in Seq(Todo)
      /\ Len(t) = IF k + 1 <= Len(s) THEN Len(s) - (k + 1) + 1 ELSE 0
      /\ \A i \in 1..(Len(s) - (k + 1) + 1) : t[i] = s[k + 1 + i - 1]
  <2>1. k + 1 \in Int /\ Len(s) \in Int /\ \A i \in (k + 1)..Len(s) : s[i] \in Todo
    BY <1>1
  <2> QED
    BY <2>1, SubSeqProperties
<1> HIDE DEF t
<1>3. Rest(s, t, k)
  BY <1>1, <1>2 DEF Rest
<1> QED
  BY <1>2, <1>3, ShapeLasts, GuardLasts DEF t

(* The next step, and what is left after it.                                *)
LEMMA TailKept ==
    ASSUME NEW s \in Seq(Todo), s # <<>>, NEW l, Shaped(s, l), Guarded(s, l),
           Head(s).op # "gate" \/ ~loaded \/ CanRun(Head(s).tool)
    PROVE  Tail(s) \in Seq(Todo) /\ Shaped(Tail(s), l) /\ Guarded(Tail(s), l)
<1>1. Len(s) \in Nat /\ Len(s) # 0
  BY LenProperties, EmptySeq
<1>2. 1 \in 0..Len(s) /\ Tail(s) = SubSeq(s, 1 + 1, Len(s))
  BY <1>1, TailIsSubSeq
<1>3. Head(s) = s[1]
  BY <1>1
<1>4. Spent(s, 1, l)
  BY <1>3 DEF Spent
<1> QED
  BY <1>2, <1>4, RestKept

(* A tool that returns early leaves the step that follows it out.           *)
LEMMA TailTailKept ==
    ASSUME NEW s \in Seq(Todo), s # <<>>, NEW l, Shaped(s, l), Guarded(s, l),
           Head(s).op = "run", ReturnsEarly(Head(s).tool)
    PROVE  /\ Tail(Tail(s)) \in Seq(Todo)
           /\ Shaped(Tail(Tail(s)), l) /\ Guarded(Tail(Tail(s)), l)
<1>1. Len(s) \in Nat /\ Len(s) # 0
  BY LenProperties, EmptySeq
<1>2. Head(s) = s[1] /\ 1 \in 1..Len(s)
  BY <1>1
<1>3. 1 < Len(s) /\ s[2].op = "post"
  BY <1>2 DEF Shaped
<1>4. Tail(s) \in Seq(Todo) /\ Shaped(Tail(s), l) /\ Guarded(Tail(s), l)
  BY TailKept
<1>5. Len(Tail(s)) = Len(s) - 1 /\ Tail(s)[1] = s[2]
  BY <1>1, <1>3, HeadTailProperties
<1>6. Tail(s) # <<>> /\ Head(Tail(s)) = s[2]
  <2> DEFINE t == Tail(s)
  <2>1. t \in Seq(Todo) /\ Len(t) >= 1 /\ t[1] = s[2]
    BY <1>1, <1>3, <1>4, <1>5
  <2> HIDE DEF t
  <2>2. t # <<>> /\ Head(t) = s[2]
    BY <2>1
  <2> QED
    BY <2>2 DEF t
<1> QED
  BY <1>3, <1>4, <1>6, TailKept

(* Which tools the modes list twice: none.                                  *)
LEMMA ListsAreApart == AlwaysAuto \cap ApprovalRequired = {}
BY DEF AlwaysAuto, ApprovalRequired

(* A tool about to run is open.                                             *)
LEMMA HeadIsOpen ==
    ASSUME NEW s \in Seq(Todo), s # <<>>, NEW l, Guarded(s, l), Head(s).op = "run"
    PROVE  Open(Head(s).tool)
<1>1. Len(s) \in Nat /\ Len(s) # 0
  BY LenProperties, EmptySeq
<1>2. Head(s) = s[1] /\ 1 \in 1..Len(s)
  BY <1>1
<1>3. ~Covered(s, 1, l)
  BY DEF Covered
<1> QED
  BY <1>2, <1>3 DEF Guarded

-----------------------------------------------------------------------------
(* Nothing runs before the first line.                                      *)
LEMMA GateStarts == ReplInit => GateInv
BY DEF ReplInit, GateInv, GatedToolsNeedApproval

(* The end of the loop drops what was left to do.                           *)
LEMMA GateEnds == ASSUME GateInv, End PROVE GateInv'
<1>1. line' = None /\ todo' = <<>> /\ did' = did /\ loaded' = loaded
  BY DEF End
<1> QED
  BY <1>1 DEF GateInv, GatedToolsNeedApproval

(* A command starts with a script.                                          *)
LEMMA GateCommand ==
    ASSUME GateInv, NEW cmd \in DOMAIN Commands, NEW tool \in Commands[cmd],
           Command(cmd, tool)
    PROVE  GateInv'
<1> DEFINE l == [cmd |-> cmd, tool |-> tool]
<1>1. l.cmd = cmd /\ l.tool = tool
  OBVIOUS
<1>2. /\ line' = l
      /\ todo' \in {<<Step("gate", cmd)>>} \cup {Script(cmd, tool, live) : live \in BOOLEAN}
      /\ mode' = mode /\ loaded' = loaded /\ did' = did
  BY DEF Command, registries
<1>3. Scripted(todo', l)
  <2>1. \A live \in BOOLEAN : Scripted(Script(cmd, tool, live), l)
    BY <1>1, ScriptsAre
  <2>2. Scripted(<<Step("gate", cmd)>>, l)
    <3> DEFINE s == <<Step("gate", cmd)>>
    <3>1. Step("gate", cmd) \in Todo /\ Step("gate", cmd).op = "gate"
          /\ Step("gate", cmd).tool \in Own(l)
      BY <1>1, CommandNames DEF Step, Todo, StepOps, Own
    <3>2. s \in Seq(Todo) /\ Len(s) = 1 /\ s[1] = Step("gate", cmd)
      BY <3>1
    <3>3. \A i \in 1..Len(s) : s[i].op = "gate" /\ s[i].tool \in Own(l)
      BY <3>1, <3>2
    <3> HIDE DEF s
    <3>4. Scripted(s, l)
      BY <3>2, <3>3 DEF Scripted, Shaped
    <3> QED
      BY <3>4 DEF s
  <2> QED
    BY <1>2, <2>1, <2>2
<1>4. l # None
  BY CommandNames, ReplAssumption
<1>5. todo' \in Seq(Todo) /\ Shaped(todo', l) /\ Guarded(todo, line)'
  <2>1. Guarded(todo', l)
    BY <1>3 DEF Scripted, Guarded
  <2> QED
    BY <1>2, <1>3, <2>1 DEF Scripted, Guarded, Open
<1> QED
  BY <1>2, <1>4, <1>5 DEF GateInv, GatedToolsNeedApproval

(* A turn starts with one, too; what it learns needs no approval.           *)
LEMMA GateTurn == ASSUME GateInv, Turn PROVE GateInv'
<1> DEFINE l == [cmd |-> "say", tool |-> "chat"]
<1>1. /\ line' = l /\ todo' \in {<<>>} \cup {ChatSteps(live) : live \in BOOLEAN}
      /\ did' \in {None, [tool |-> "memory_store", cmd |-> "say", mode |-> mode,
                          blocked |-> FALSE]}
      /\ mode' = mode /\ loaded' = loaded
  BY DEF Turn, registries
<1>2. Scripted(todo', l)
  <2>1. CASE todo' = <<>>
    BY <2>1 DEF Scripted, Shaped
  <2>2. CASE \E live \in BOOLEAN : todo' = ChatSteps(live)
    <3>1. PICK live \in BOOLEAN : todo' = ChatSteps(live)
      BY <2>2
    <3>2. <<>> \in Seq(Todo) /\ Len(<<>>) = 0
      OBVIOUS
    <3>3. Scripted(<<>> \o ChatSteps(live), l)
      <4> DEFINE a == <<>>
      <4>1. \A i \in 1..Len(a) : a[i].op = "gate" /\ a[i].tool \in Own(l)
        BY <3>2
      <4>2. a \in Seq(Todo)
        BY <3>2
      <4> HIDE DEF a
      <4>3. Scripted(a \o ChatSteps(live), l)
        BY <4>1, <4>2, ChatWhole, GatesThenWhole
      <4> QED
        BY <4>3 DEF a
    <3>4. <<>> \o ChatSteps(live) = ChatSteps(live)
      BY ChatWhole, ConcatEmptySeq
    <3> QED
      BY <3>1, <3>3, <3>4
  <2> QED
    BY <1>1, <2>1, <2>2
<1>3. l # None
  BY TurnTools, ReplAssumption DEF Words
<1>4. todo' \in Seq(Todo) /\ Shaped(todo', l) /\ Guarded(todo, line)'
  <2>1. Guarded(todo', l)
    BY <1>2 DEF Scripted, Guarded
  <2> QED
    BY <1>1, <1>2, <2>1 DEF Scripted, Guarded, Open
<1>5. GatedToolsNeedApproval'
  <2>1. "memory_store" \notin Gating \cup {"bash"}
    BY DEF Gating
  <2>2. did' # None => did'.tool = "memory_store"
    BY <1>1
  <2> QED
    BY <2>1, <2>2 DEF GatedToolsNeedApproval
<1> QED
  BY <1>1, <1>3, <1>4, <1>5 DEF GateInv

(* A gate lets the line go on, ends it, or skips what it guards.            *)
LEMMA GateGate == ASSUME GateInv, GateStep PROVE GateInv'
<1>1. /\ line # None /\ todo # <<>> /\ Head(todo).op = "gate"
      /\ mode' = mode /\ loaded' = loaded /\ line' = line /\ did' = did
  BY DEF GateStep, At, Running, registries
<1>2. todo \in Seq(Todo) /\ Shaped(todo, line) /\ Guarded(todo, line)
  BY <1>1 DEF GateInv
<1>3. todo' \in Seq(Todo) /\ Shaped(todo', line) /\ Guarded(todo', line)
  <2>1. CASE (~loaded \/ CanRun(Current)) /\ todo' = Tail(todo)
    BY <1>1, <1>2, <2>1, TailKept DEF Current
  <2>2. CASE ~CanRun(Current) /\ todo' = AfterRefusal(Current)
    <3>1. CASE Current \in Own(line)
      <4>1. todo' = <<>>
        BY <2>2, <3>1 DEF AfterRefusal, Own
      <4> QED
        BY <4>1 DEF Shaped, Guarded
    <3>2. CASE Current \notin Own(line)
      <4>1. Len(todo) \in Nat /\ Len(todo) # 0
        BY <1>1, <1>2, LenProperties, EmptySeq
      <4>2. Head(todo) = todo[1] /\ 1 \in 1..Len(todo)
        BY <1>2, <4>1
      <4>3. /\ FiresPost(Current) /\ 1 + 2 <= Len(todo)
            /\ todo[1 + 1].op = "run" /\ todo[1 + 2].op = "post"
        BY <1>1, <1>2, <3>2, <4>2 DEF Shaped, Current
      <4>4. Len(Steps(Current)) = 3
        <5>1. Current \in Tools
          <6>1. Head(todo) \in Todo
            BY <1>1, <1>2, HeadTailProperties
          <6> QED
            BY <6>1 DEF Current, Todo
        <5> QED
          BY <4>3, <5>1, StepsAre
      <4>5. 3 \in 0..Len(todo) /\ todo' = SubSeq(todo, 3 + 1, Len(todo))
        BY <2>2, <3>2, <4>1, <4>3, <4>4 DEF AfterRefusal, Own
      <4>6. Spent(todo, 3, line)
        <5>1. ASSUME NEW j \in 1..3 PROVE j = 1 \/ j = 2 \/ j = 3
          OBVIOUS
        <5>2. todo[2].op # "gate" /\ todo[3].op # "gate"
          BY <4>3
        <5>3. todo[1].tool \notin Own(line) /\ 1 < 3
          BY <3>2, <4>2 DEF Current
        <5> QED
          BY <5>1, <5>2, <5>3 DEF Spent
      <4> QED
        BY <1>2, <4>5, <4>6, RestKept
    <3> QED
      BY <3>1, <3>2
  <2> QED
    BY <2>1, <2>2 DEF GateStep
<1>4. Guarded(todo, line)'
  BY <1>1, <1>3 DEF Guarded, Open
<1> QED
  BY <1>1, <1>3, <1>4 DEF GateInv, GatedToolsNeedApproval

(* What runs is open; after a change of the mode nothing is left to run.    *)
LEMMA GateRun == ASSUME GateInv, RunStep PROVE GateInv'
<1>1. /\ line # None /\ todo # <<>> /\ Head(todo).op = "run"
      /\ loaded' = loaded /\ line' = line
      /\ did' = [tool |-> Current, cmd |-> line.cmd, mode |-> mode, blocked |-> blocked]
      /\ \/ todo' = Tail(todo)
         \/ ReturnsEarly(Current) /\ todo' = Tail(Tail(todo))
  BY DEF RunStep, At, Running
<1>2. todo \in Seq(Todo) /\ Shaped(todo, line) /\ Guarded(todo, line)
  BY <1>1 DEF GateInv
<1>3. todo' \in Seq(Todo) /\ Shaped(todo', line) /\ Guarded(todo', line)
  BY <1>1, <1>2, TailKept, TailTailKept DEF Current
<1>4. Open(Current)
  BY <1>1, <1>2, HeadIsOpen DEF Current
<1>5. CASE mode' = mode
  <2>1. Guarded(todo, line)'
    BY <1>1, <1>3, <1>5 DEF Guarded, Open
  <2>2. GatedToolsNeedApproval'
    <3>1. did'.tool = Current /\ did'.mode = mode
      BY <1>1
    <3> QED
      BY <1>1, <1>4, <3>1 DEF GatedToolsNeedApproval, Open, Watched
  <2> QED
    BY <1>1, <1>3, <2>1, <2>2 DEF GateInv
<1>6. CASE mode' # mode
  <2>1. Current = "permission_set"
    <3>1. mode' = mode \/ PermissionCommand(Current)
      BY DEF RunStep, HookCommand, SubagentCommand, McpCommand, registries
    <3> QED
      BY <1>6, <3>1 DEF PermissionCommand
  <2>2. Len(todo) \in Nat /\ Len(todo) # 0
    BY <1>1, <1>2, LenProperties, EmptySeq
  <2>3. Head(todo) = todo[1] /\ 1 \in 1..Len(todo)
    BY <1>2, <2>2
  <2>4. 1 = Len(todo)
    BY <1>1, <1>2, <2>1, <2>3 DEF Shaped, Current
  <2>5. ~ReturnsEarly(Current) /\ Current \notin Gating \cup {"bash"}
    BY <2>1 DEF ReturnsEarly, Gating
  <2>6. todo' \in Seq(Todo) /\ Len(todo') = 0
    BY <1>1, <1>2, <1>3, <2>4, <2>5, HeadTailProperties
  <2>7. Guarded(todo, line)'
    BY <2>6 DEF Guarded
  <2>8. GatedToolsNeedApproval'
    <3>1. did'.tool = Current
      BY <1>1
    <3> QED
      BY <2>5, <3>1 DEF GatedToolsNeedApproval
  <2> QED
    BY <1>1, <1>3, <2>7, <2>8 DEF GateInv
<1> QED
  BY <1>5, <1>6

(* The other steps drop a step that is no gate, or nothing.                 *)
LEMMA GateDrops ==
    ASSUME GateInv, At("post") \/ At("llm"), todo' = Tail(todo), line' = line,
           UNCHANGED <<registries, loaded, did>>
    PROVE  GateInv'
<1>1. /\ line # None /\ todo # <<>> /\ Head(todo).op # "gate"
      /\ mode' = mode /\ loaded' = loaded /\ did' = did
  BY DEF At, Running, registries
<1>2. todo \in Seq(Todo) /\ Shaped(todo, line) /\ Guarded(todo, line)
  BY <1>1 DEF GateInv
<1>3. todo' \in Seq(Todo) /\ Shaped(todo', line) /\ Guarded(todo', line)
  BY <1>1, <1>2, TailKept
<1>4. Guarded(todo, line)'
  BY <1>1, <1>3 DEF Guarded, Open
<1> QED
  BY <1>1, <1>3, <1>4 DEF GateInv, GatedToolsNeedApproval

(* A step that leaves mode and steps alone, or ends a line that has none.   *)
LEMMA GateIdles ==
    ASSUME GateInv, todo' = todo, UNCHANGED <<mode, loaded>>,
           line' = line \/ (todo = <<>> /\ line' = None),
           did' = did \/ did' = None
    PROVE  GateInv'
<1>1. ASSUME line # None, line' = line PROVE Shaped(todo, line)' /\ Guarded(todo, line)'
  BY <1>1 DEF GateInv, Shaped, Guarded, Open, Covered
<1>2. GatedToolsNeedApproval'
  BY DEF GateInv, GatedToolsNeedApproval
<1> QED
  BY <1>1, <1>2 DEF GateInv

-----------------------------------------------------------------------------
(* Every step of the program keeps the invariant of the gates.              *)
LEMMA GateSteps == ASSUME GateInv, [ReplNext]_replVars PROVE GateInv'
<1>1. ASSUME NEW cmd \in DOMAIN Commands, NEW tool \in Commands[cmd], Command(cmd, tool)
      PROVE  GateInv'
  BY <1>1, GateCommand
<1>2. CASE Clear
  BY <1>2, GateIdles DEF Clear, registries
<1>3. CASE Quit \/ Raise \/ Interrupt
  BY <1>3, GateEnds DEF Quit, Raise, Interrupt
<1>4. CASE Turn
  BY <1>4, GateTurn
<1>5. CASE GateStep
  BY <1>5, GateGate
<1>6. CASE RunStep
  BY <1>6, GateRun
<1>7. CASE PostStep
  BY <1>7, GateDrops DEF PostStep
<1>8. CASE Answer
  BY <1>8, GateEnds, GateDrops DEF Answer
<1>9. CASE Reply
  BY <1>9, GateIdles DEF Reply, registries
<1>10. CASE InterruptServer
  BY <1>10, GateIdles DEF InterruptServer, registries
<1>11. CASE UNCHANGED replVars
  BY <1>11, GateIdles DEF replVars
<1> QED
  BY <1>1, <1>2, <1>3, <1>4, <1>5, <1>6, <1>7, <1>8, <1>9, <1>10, <1>11 DEF ReplNext

(* Whatever users type: in auto mode no shell, cargo, node or patch tool    *)
(* runs that needs approval. (repl.py 299)                                  *)
THEOREM ApprovalIsNeeded == ReplSpec => []GatedToolsNeedApproval
<1>1. GateInv => GatedToolsNeedApproval
  BY DEF GateInv
<1> QED
  BY <1>1, GateStarts, GateSteps, PTL DEF ReplSpec

(* Nothing that runs leaves plan mode: a step that starts in it runs no     *)
(* tool, so the registries and the mode stay as they are.                   *)
LEMMA PlanModeRunsNothing ==
    ASSUME GateInv, [ReplNext]_replVars, loaded, mode = "plan"
    PROVE  /\ UNCHANGED registries
           /\ did' \in {None, did} \/ (did'.tool = "memory_store" /\ did'.cmd = "say")
<1>1. ~RunStep
  <2> SUFFICES ASSUME RunStep PROVE FALSE
    OBVIOUS
  <2>1. line # None /\ todo # <<>> /\ Head(todo).op = "run"
    BY DEF RunStep, At, Running
  <2>2. Open(Head(todo).tool)
    BY <2>1, HeadIsOpen DEF GateInv
  <2> QED
    BY <2>2 DEF Open
<1>2. ASSUME NEW cmd \in DOMAIN Commands, NEW tool \in Commands[cmd], Command(cmd, tool)
      PROVE  UNCHANGED registries /\ did' = did
  BY <1>2 DEF Command
<1>3. CASE Clear \/ InterruptServer
  BY <1>3 DEF Clear, InterruptServer
<1>4. CASE Quit \/ Raise \/ Interrupt
  BY <1>4 DEF Quit, Raise, Interrupt, End
<1>5. CASE Turn
  <2>1. did' = None \/ did' = [tool |-> "memory_store", cmd |-> "say", mode |-> mode,
                               blocked |-> FALSE]
    BY <1>5 DEF Turn
  <2> QED
    BY <1>5, <2>1 DEF Turn
<1>6. CASE GateStep \/ PostStep \/ Reply
  BY <1>6 DEF GateStep, PostStep, Reply
<1>7. CASE Answer
  BY <1>7 DEF Answer, End
<1>8. CASE UNCHANGED replVars
  BY <1>8 DEF replVars, registries
<1> QED
  BY <1>1, <1>2, <1>3, <1>4, <1>5, <1>6, <1>7, <1>8 DEF ReplNext

(* In plan mode no registry but the mode changes, and no tool runs but      *)
(* those that show and set the mode. (permission.py 59)                     *)
THEOREM PlanModeStaysReadOnly == ReplSpec => PlanModeOnlyAnalyses
<1>1. (GateInv /\ [ReplNext]_replVars) =>
        [loaded /\ mode = "plan" =>
           /\ UNCHANGED <<hooks, runs, servers>>
           /\ \/ did' \in {None, did}
              \/ did'.tool \in Commands.permission
              \/ did'.tool = "memory_store" /\ did'.cmd = "say"]_replVars
  BY PlanModeRunsNothing DEF registries
<1> QED
  BY <1>1, GateStarts, GateSteps, PTL DEF ReplSpec, PlanModeOnlyAnalyses

-----------------------------------------------------------------------------
(* Messages of both sides, in turn.                                         *)
Alternates(s) == \A i \in 1..Len(s) : s[i] = IF i % 2 = 1 THEN "user" ELSE "assistant"

(* Only the line of a turn leaves the conversation without its last answer. *)
TranscriptInv ==
    /\ conv \in Seq({"user", "assistant"})
    /\ Alternates(conv)
    /\ line # None => (line.cmd = "say" <=> Len(conv) % 2 = 1)
    /\ (line = None /\ vault = None) => Len(conv) % 2 = 0
    /\ vault # None => vault \in {conv, <<>>}

(* An empty conversation has no open question.                              *)
LEMMA TranscriptStarts == ReplInit => TranscriptInv
BY DEF ReplInit, TranscriptInv, Alternates

(* The user speaks after an answer, the assistant after the user.           *)
LEMMA MessageAppended ==
    ASSUME NEW s \in Seq({"user", "assistant"}), Alternates(s),
           NEW who \in {"user", "assistant"},
           who = IF Len(s) % 2 = 0 THEN "user" ELSE "assistant"
    PROVE  /\ Append(s, who) \in Seq({"user", "assistant"})
           /\ Alternates(Append(s, who))
           /\ Len(Append(s, who)) % 2 # Len(s) % 2
<1>1. /\ Append(s, who) \in Seq({"user", "assistant"})
      /\ Len(Append(s, who)) = Len(s) + 1
      /\ \A i \in 1..Len(s) : Append(s, who)[i] = s[i]
      /\ Append(s, who)[Len(s) + 1] = who
  BY AppendProperties
<1>2. Len(s) \in Nat
  BY LenProperties
<1>3. Len(s) % 2 \in {0, 1} /\ (Len(s) + 1) % 2 = 1 - (Len(s) % 2)
  BY <1>2
<1>4. ASSUME NEW i \in 1..Len(Append(s, who))
      PROVE  Append(s, who)[i] = IF i % 2 = 1 THEN "user" ELSE "assistant"
  <2>1. CASE i \in 1..Len(s)
    BY <1>1, <2>1 DEF Alternates
  <2>2. CASE i = Len(s) + 1
    BY <1>1, <1>3, <2>2
  <2> QED
    BY <1>1, <1>2, <2>1, <2>2
<1> QED
  BY <1>1, <1>3, <1>4 DEF Alternates

(* The transcript is what the conversation was when the loop ended.         *)
LEMMA TranscriptEnds == ASSUME TranscriptInv, End PROVE TranscriptInv'
<1>1. vault' \in {conv, <<>>} /\ line' = None /\ conv' = conv
  BY DEF End
<1>2. conv # None /\ <<>> # None
  <2>1. <<>> \in Seq({"user", "assistant"}) /\ conv \in Seq({"user", "assistant"})
    BY DEF TranscriptInv
  <2> QED
    BY <2>1, ReplAssumption
<1> QED
  BY <1>1, <1>2 DEF TranscriptInv

(* Most steps leave line, conversation and transcript alone.                *)
LEMMA TranscriptIdles ==
    ASSUME TranscriptInv, UNCHANGED <<line, conv, vault>> PROVE TranscriptInv'
BY DEF TranscriptInv

(* Every step keeps the conversation in turn.                               *)
LEMMA TranscriptSteps == ASSUME TranscriptInv, [ReplNext]_replVars PROVE TranscriptInv'
<1>1. ASSUME NEW cmd \in DOMAIN Commands, NEW tool \in Commands[cmd], Command(cmd, tool)
      PROVE  TranscriptInv'
  <2>1. line' = [cmd |-> cmd, tool |-> tool] /\ line = None /\ vault = None
        /\ conv' = conv /\ vault' = vault
    BY <1>1 DEF Command, Prompting
  <2>2. line'.cmd = cmd /\ cmd # "say"
    BY <2>1, CommandNames
  <2>3. line' # None
    BY <2>1, CommandNames, ReplAssumption
  <2>4. Len(conv) % 2 # 1
    BY <2>1 DEF TranscriptInv
  <2> QED
    BY <2>1, <2>2, <2>3, <2>4 DEF TranscriptInv
<1>2. CASE Clear
  <2>1. conv' = <<>> /\ line = None /\ line' = None /\ vault' = None
    BY <1>2 DEF Clear, Prompting
  <2> QED
    BY <2>1 DEF TranscriptInv, Alternates
<1>3. CASE Quit \/ Raise \/ Interrupt
  BY <1>3, TranscriptEnds DEF Quit, Raise, Interrupt
<1>4. CASE Turn
  <2>1. /\ line' = [cmd |-> "say", tool |-> "chat"] /\ line = None /\ vault = None
        /\ conv' = Append(conv, "user") /\ vault' = vault
    BY <1>4 DEF Turn, Prompting
  <2>2. line' # None /\ line'.cmd = "say"
    BY <2>1, TurnTools, ReplAssumption DEF Words
  <2>3. Len(conv) % 2 = 0
    BY <2>1 DEF TranscriptInv
  <2>4. /\ conv' \in Seq({"user", "assistant"}) /\ Alternates(conv')
        /\ Len(conv') % 2 # Len(conv) % 2
    BY <2>1, <2>3, MessageAppended DEF TranscriptInv
  <2>5. Len(conv') % 2 = 1
    <3>1. Len(conv') \in Nat
      BY <2>4, LenProperties
    <3> QED
      BY <2>3, <2>4, <3>1
  <2> QED
    BY <2>1, <2>2, <2>4, <2>5 DEF TranscriptInv, Alternates
<1>5. CASE GateStep \/ PostStep \/ InterruptServer
  BY <1>5, TranscriptIdles DEF GateStep, PostStep, InterruptServer
<1>6. CASE RunStep
  BY <1>6, TranscriptIdles DEF RunStep
<1>7. CASE Answer
  BY <1>7, TranscriptEnds, TranscriptIdles DEF Answer
<1>8. CASE Reply
  <2>1. /\ line # None /\ vault = None /\ line' = None /\ vault' = None
        /\ conv' = IF line.cmd = "say" THEN Append(conv, "assistant") ELSE conv
    BY <1>8 DEF Reply, Running
  <2>2. Len(conv) \in Nat
    BY LenProperties DEF TranscriptInv
  <2>3. CASE line.cmd = "say"
    <3>1. Len(conv) % 2 = 1
      BY <2>1, <2>3 DEF TranscriptInv
    <3>2. /\ conv' \in Seq({"user", "assistant"}) /\ Alternates(conv')
          /\ Len(conv') % 2 # Len(conv) % 2
      BY <2>1, <2>3, <3>1, MessageAppended DEF TranscriptInv
    <3>3. Len(conv') \in Nat
      BY <3>2, LenProperties
    <3>4. Len(conv') % 2 = 0
      BY <3>1, <3>2, <3>3
    <3> QED
      BY <2>1, <3>2, <3>4 DEF TranscriptInv, Alternates
  <2>4. CASE line.cmd # "say"
    <3>1. Len(conv) % 2 # 1 /\ conv' = conv
      BY <2>1, <2>4 DEF TranscriptInv
    <3>2. Len(conv) % 2 = 0
      BY <2>2, <3>1
    <3> QED
      BY <2>1, <3>1, <3>2 DEF TranscriptInv
  <2> QED
    BY <2>3, <2>4
<1>9. CASE UNCHANGED replVars
  BY <1>9, TranscriptIdles DEF replVars
<1> QED
  BY <1>1, <1>2, <1>3, <1>4, <1>5, <1>6, <1>7, <1>8, <1>9 DEF ReplNext

(* What the invariant comes to for a reader of the transcript.              *)
LEMMA TranscriptSays == TranscriptInv => TranscriptIsTheConversation
<1> SUFFICES ASSUME TranscriptInv PROVE TranscriptIsTheConversation
  OBVIOUS
<1>1. DOMAIN conv = 1..Len(conv) /\ Len(conv) \in Nat
  BY LenProperties DEF TranscriptInv
<1> QED
  BY <1>1 DEF TranscriptInv, Alternates, TranscriptIsTheConversation

(* Every message is answered before the next one, and a transcript that is  *)
(* kept is the whole conversation. (repl.py 1265, 1292)                     *)
THEOREM TranscriptStaysWhole == ReplSpec => []TranscriptIsTheConversation
BY TranscriptSays, TranscriptStarts, TranscriptSteps, PTL DEF ReplSpec

-----------------------------------------------------------------------------
(* The loop of the command line tool.                                       *)

(* The one late prompt leaves the thread where it ends next.                *)
Silenced(beat, n) ==
    \/ n = 0
    \/ n = 1 /\ beat # None /\ beat.stop /\ beat.thread \in {"check", "ended"}

(* What is waited for was told to stop, and what is listed as stopped, too. *)
Told(beat, waitedFor) ==
    /\ waitedFor => beat # None /\ beat.stop
    /\ beat # None /\ beat.listed = "stopped" => beat.stop

HeartbeatTypes ==
    /\ beats \in [Heartbeats -> Heartbeat \cup {None}]
    /\ late \in [Heartbeats -> Nat]
    /\ joining \subseteq Heartbeats

HeartbeatInv ==
    /\ HeartbeatTypes
    /\ \A h \in Heartbeats : Silenced(beats[h], late[h]) /\ Told(beats[h], h \in joining)

-----------------------------------------------------------------------------
(* No heartbeat is set at the beginning.                                    *)
LEMMA QueueStarts == QueueInit => HeartbeatInv
<1> SUFFICES ASSUME QueueInit PROVE HeartbeatInv
  OBVIOUS
<1>1. HeartbeatTypes
  BY DEF QueueInit, HeartbeatTypes
<1>2. ASSUME NEW h \in Heartbeats
      PROVE  beats[h] = None /\ late[h] = 0 /\ h \notin joining
  BY DEF QueueInit
<1>3. ASSUME NEW h \in Heartbeats
      PROVE  Silenced(beats[h], late[h]) /\ Told(beats[h], h \in joining)
  BY <1>2 DEF Silenced, Told
<1> QED
  BY <1>1, <1>3 DEF HeartbeatInv

(* A change of one field leaves a heartbeat a heartbeat.                    *)
LEMMA HeartbeatFields ==
    ASSUME NEW b \in Heartbeat
    PROVE  /\ [b EXCEPT !.stop = TRUE] \in Heartbeat
           /\ [b EXCEPT !.listed = "stopped"] \in Heartbeat
           /\ \A s \in BOOLEAN : [b EXCEPT !.stale = s] \in Heartbeat
           /\ \A t \in {"check", "wait", "add", "ended"} : [b EXCEPT !.thread = t] \in Heartbeat
BY DEF Heartbeat

(* Told to stop, a heartbeat has been told and is as silent as it was.      *)
LEMMA TellingOne ==
    ASSUME NEW b \in Heartbeat, NEW n \in Nat, Silenced(b, n), NEW waited \in BOOLEAN
    PROVE  LET c == [b EXCEPT !.stop = TRUE]
           IN  c \in Heartbeat /\ Silenced(c, n) /\ Told(c, waited)
<1> DEFINE c == [b EXCEPT !.stop = TRUE]
<1>1. c \in Heartbeat /\ c # None
  BY HeartbeatFields, CliQueueAssumption
<1>2. c.stop /\ c.thread = b.thread
  BY DEF Heartbeat
<1>3. Silenced(c, n)
  BY <1>1, <1>2 DEF Silenced
<1> HIDE DEF c
<1>4. Told(c, waited)
  BY <1>1, <1>2 DEF Told
<1> QED
  BY <1>1, <1>3, <1>4 DEF c

(* Telling some to stop, to wait for them.                                  *)
LEMMA StopTells ==
    ASSUME HeartbeatInv, NEW hs \in SUBSET Heartbeats, \A h \in hs : beats[h] # None,
           beats' = Stop(hs), joining' = hs, late' = late
    PROVE  HeartbeatInv'
<1> USE DEF HeartbeatInv, HeartbeatTypes
<1>1. ASSUME NEW k \in Heartbeats
      PROVE  /\ beats'[k] \in Heartbeat \cup {None}
             /\ Silenced(beats'[k], late'[k]) /\ Told(beats'[k], k \in joining')
  <2>1. CASE k \in hs
    <3>1. beats[k] \in Heartbeat /\ beats'[k] = [beats[k] EXCEPT !.stop = TRUE]
      BY <2>1 DEF Stop
    <3>2. late'[k] = late[k] /\ late[k] \in Nat /\ Silenced(beats[k], late[k])
      OBVIOUS
    <3>3. (k \in hs) \in BOOLEAN
      OBVIOUS
    <3>4. beats'[k] \in Heartbeat /\ Silenced(beats'[k], late[k]) /\ Told(beats'[k], k \in hs)
      BY <3>1, <3>2, <3>3, TellingOne
    <3> QED
      BY <3>2, <3>4
  <2>2. CASE k \notin hs
    <3>1. beats'[k] = beats[k]
      BY <2>2 DEF Stop
    <3> QED
      BY <2>2, <3>1 DEF Told
  <2> QED
    BY <2>1, <2>2
<1> QED
  BY <1>1 DEF Stop

(* A heartbeat may change its mark of a queue that was cleared.             *)
LEMMA ClearingKeeps == HeartbeatInv /\ ClearQueue => HeartbeatInv'
<1> USE DEF HeartbeatInv, HeartbeatTypes
<1> SUFFICES ASSUME HeartbeatInv, ClearQueue PROVE HeartbeatInv'
  OBVIOUS
<1>1. ASSUME NEW k \in Heartbeats
      PROVE  /\ beats'[k] \in Heartbeat \cup {None}
             /\ Silenced(beats'[k], late'[k]) /\ Told(beats'[k], k \in joining')
  <2>1. CASE Live(k)
    <3>1. PICK s \in BOOLEAN : beats'[k] = [beats[k] EXCEPT !.stale = s]
      BY <2>1 DEF ClearQueue
    <3>2. beats[k] \in Heartbeat
      BY <2>1 DEF Live
    <3>3. /\ beats'[k] \in Heartbeat /\ beats'[k].stop = beats[k].stop
          /\ beats'[k].thread = beats[k].thread /\ beats'[k].listed = beats[k].listed
      BY <3>1, <3>2, HeartbeatFields DEF Heartbeat
    <3>4. late'[k] = late[k] /\ (k \in joining') = (k \in joining)
      BY DEF ClearQueue
    <3>5. beats[k] # None /\ beats'[k] # None
      BY <3>2, <3>3, CliQueueAssumption
    <3> QED
      BY <3>3, <3>4, <3>5 DEF Silenced, Told
  <2>2. CASE ~Live(k)
    BY <2>2 DEF ClearQueue
  <2> QED
    BY <2>1, <2>2
<1> QED
  BY <1>1 DEF ClearQueue

(* What is over, or given up, is listed as stopped if it was told.          *)
LEMMA JoiningKeeps == HeartbeatInv /\ (Joined \/ InterruptJoin) => HeartbeatInv'
<1> USE DEF HeartbeatInv, HeartbeatTypes
<1>1. HeartbeatInv /\ InterruptJoin => HeartbeatInv'
  BY DEF InterruptJoin, Told
<1>2. ASSUME HeartbeatInv, Joined PROVE HeartbeatInv'
  <2>1. ASSUME NEW k \in Heartbeats
        PROVE  /\ beats'[k] \in Heartbeat \cup {None}
               /\ Silenced(beats'[k], late'[k]) /\ Told(beats'[k], k \in joining')
    <3>1. late'[k] = late[k] /\ k \notin joining'
      BY <1>2 DEF Joined
    <3>2. CASE k \in joining
      <4>1. beats[k] \in Heartbeat /\ beats[k].stop
        BY <1>2, <3>2 DEF Told
      <4>2. beats'[k] = [beats[k] EXCEPT !.listed = "stopped"]
        BY <1>2, <3>2 DEF Joined
      <4>3. /\ beats'[k] \in Heartbeat /\ beats'[k].stop
            /\ beats'[k].thread = beats[k].thread
        BY <4>1, <4>2, HeartbeatFields DEF Heartbeat
      <4> QED
        BY <1>2, <3>1, <4>3, CliQueueAssumption DEF Silenced, Told
    <3>3. CASE k \notin joining
      BY <1>2, <3>1, <3>3 DEF Joined, Told
    <3> QED
      BY <3>2, <3>3
  <2> QED
    BY <1>2, <2>1 DEF Joined
<1> QED
  BY <1>1, <1>2

(* A thread that goes on, to add nothing or what it may.                    *)
LEMMA ThreadMoves ==
    ASSUME HeartbeatInv, NEW h \in Heartbeats, beats[h] # None,
           NEW b \in Heartbeat, beats' = [beats EXCEPT ![h] = b], joining' = joining,
           b.stop = beats[h].stop, b.listed = beats[h].listed,
           NEW n \in Nat, late' = [late EXCEPT ![h] = n], Silenced(b, n)
    PROVE  HeartbeatInv'
<1> USE DEF HeartbeatInv, HeartbeatTypes
<1>1. Told(b, h \in joining)
  BY CliQueueAssumption DEF Told
<1> QED
  BY <1>1

(* A step of the loop keeps the invariant.                                  *)
LEMMA MainStep == HeartbeatInv /\ Main => HeartbeatInv'
<1> SUFFICES ASSUME HeartbeatInv, Main PROVE HeartbeatInv'
  OBVIOUS
<1> USE DEF HeartbeatInv, HeartbeatTypes
<1>1. CASE NextPrompt \/ ServeOther \/ AddPrompt
  BY <1>1 DEF NextPrompt, ServeOther, AddPrompt
<1>2. ASSUME NEW h \in Heartbeats, SetHeartbeat(h) PROVE HeartbeatInv'
  <2> DEFINE b == [listed |-> "active", thread |-> "check", stop |-> FALSE, stale |-> FALSE]
  <2>1. b \in Heartbeat /\ Silenced(b, late[h]) /\ Told(b, h \in joining)
    BY <1>2 DEF SetHeartbeat, Started, Heartbeat, Silenced, Told
  <2>2. beats' = [beats EXCEPT ![h] = b] /\ UNCHANGED <<joining, late>>
    BY <1>2 DEF SetHeartbeat, Started
  <2> HIDE DEF b
  <2> QED
    BY <2>1, <2>2
<1>3. ASSUME NEW h \in Heartbeats, StopHeartbeat(h) PROVE HeartbeatInv'
  BY <1>3, StopTells DEF StopHeartbeat
<1>4. CASE Leave
  <2> DEFINE hs == {h \in Heartbeats : beats[h] # None}
  <2>1. beats' = Stop(hs) /\ joining' = hs /\ late' = late
    BY <1>4 DEF Leave
  <2> QED
    BY <2>1, StopTells
<1>5. CASE LeaveJoined
  <2>1. ASSUME NEW k \in Heartbeats
        PROVE  /\ beats'[k] \in Heartbeat \cup {None}
               /\ Silenced(beats'[k], late'[k]) /\ Told(beats'[k], k \in joining')
    <3>1. late'[k] = late[k] /\ k \notin joining'
      BY <1>5 DEF LeaveJoined
    <3>2. CASE beats[k] = None
      BY <1>5, <3>1, <3>2 DEF LeaveJoined, Told, Silenced
    <3>3. CASE beats[k] # None
      <4>1. beats[k] \in Heartbeat /\ beats'[k] = [beats[k] EXCEPT !.thread = "ended"]
        BY <1>5, <3>3 DEF LeaveJoined
      <4>2. /\ beats'[k] \in Heartbeat /\ beats'[k].stop = beats[k].stop
            /\ beats'[k].thread = "ended" /\ beats'[k].listed = beats[k].listed
        BY <4>1, HeartbeatFields DEF Heartbeat
      <4> QED
        BY <3>1, <3>3, <4>2, CliQueueAssumption DEF Silenced, Told
    <3> QED
      BY <3>2, <3>3
  <2> QED
    BY <1>5, <2>1 DEF LeaveJoined
<1> QED
  BY <1>1, <1>2, <1>3, <1>4, <1>5, ClearingKeeps, JoiningKeeps DEF Main

(* A step of a thread keeps the invariant.                                  *)
LEMMA ThreadStep ==
    ASSUME HeartbeatInv, NEW h \in Heartbeats, Thread(h)
    PROVE  HeartbeatInv'
<1>1. beats[h] \in Heartbeat /\ beats[h] # None /\ late[h] \in Nat
  BY DEF HeartbeatInv, HeartbeatTypes, Thread, Check, Woken, Elapsed, Beat
<1>2. Silenced(beats[h], late[h])
  BY DEF HeartbeatInv
<1>3. CASE Check(h) \/ Woken(h) \/ Elapsed(h)
  <2>1. PICK t \in {"wait", "ended", "add"} :
          /\ beats' = [beats EXCEPT ![h] = [beats[h] EXCEPT !.thread = t]]
          /\ UNCHANGED <<joining, late>>
          /\ beats[h].stop => t = "ended"
    BY <1>3 DEF Check, Woken, Elapsed, BeatTo
  <2> DEFINE b == [beats[h] EXCEPT !.thread = t]
  <2>2. /\ b \in Heartbeat /\ b.stop = beats[h].stop /\ b.listed = beats[h].listed
        /\ b.thread = t
    BY <1>1, HeartbeatFields DEF Heartbeat
  <2>3. Silenced(b, late[h])
    BY <1>2, <2>1, <2>2, CliQueueAssumption DEF Silenced
  <2>4. late' = [late EXCEPT ![h] = late[h]]
    BY <2>1 DEF HeartbeatInv, HeartbeatTypes
  <2> QED
    BY <1>1, <2>1, <2>2, <2>3, <2>4, ThreadMoves
<1>4. CASE Beat(h)
  <2> DEFINE b == [beats[h] EXCEPT !.thread = "check", !.stale = FALSE]
             n == IF beats[h].stop THEN late[h] + 1 ELSE late[h]
  <2>1. /\ b \in Heartbeat /\ b.stop = beats[h].stop /\ b.listed = beats[h].listed
        /\ b.thread = "check"
    BY <1>1 DEF Heartbeat
  <2>2. late[h] = 0
    BY <1>2, <1>4 DEF Beat, Silenced
  <2>3. n \in {0, 1} /\ (n = 1 => beats[h].stop)
    BY <2>2
  <2> HIDE DEF b, n
  <2>4. b # None
    BY <2>1, CliQueueAssumption
  <2>5. n \in Nat /\ Silenced(b, n)
    BY <2>1, <2>3, <2>4 DEF Silenced
  <2>6. beats' = [beats EXCEPT ![h] = b] /\ late' = [late EXCEPT ![h] = n] /\ joining' = joining
    BY <1>4 DEF Beat, b, n
  <2> QED
    BY <1>1, <2>1, <2>5, <2>6, ThreadMoves
<1> QED
  BY <1>3, <1>4 DEF Thread

(* Every step of either keeps it.                                           *)
LEMMA HeartbeatSteps == HeartbeatInv /\ [QueueNext]_queueVars => HeartbeatInv'
<1>1. HeartbeatInv /\ UNCHANGED queueVars => HeartbeatInv'
  BY DEF HeartbeatInv, HeartbeatTypes, queueVars
<1> QED
  BY <1>1, MainStep, ThreadStep DEF QueueNext

(* The invariant holds of every behaviour of the loop and its heartbeats.   *)
THEOREM HeartbeatInductive == QueueSpec => []HeartbeatInv
BY QueueStarts, HeartbeatSteps, PTL DEF QueueSpec

(* What the invariant comes to for what is heard of a stopped heartbeat.    *)
LEMMA HeartbeatSays == HeartbeatInv => StoppedHeartbeatsFallSilent
BY DEF HeartbeatInv, HeartbeatTypes, Silenced, Told, StoppedHeartbeatsFallSilent

(* A heartbeat adds one prompt at most after it was told to stop, and the   *)
(* list of heartbeats calls none stopped that was not told.                 *)
THEOREM HeartbeatsFallSilent == QueueSpec => []StoppedHeartbeatsFallSilent
BY HeartbeatInductive, HeartbeatSays, PTL

-----------------------------------------------------------------------------
(* The types of both programs.                                              *)

(* Removing hooks leaves a list of hooks.                                   *)
LEMMA HooksRemain ==
    ASSUME NEW list \in Seq(HookSpec), NEW name, NEW agent
    PROVE  Without(list, name, agent) \in Seq(HookSpec)
<1> DEFINE size == Len(list)
           Gone(n) == list[n].name = name /\ agent \in {None, list[n].agent}
           Keep(f, n) == IF n = 0 THEN <<>>
                         ELSE IF Gone(n) THEN f[n - 1] ELSE Append(f[n - 1], list[n])
           Keeps(f, m) == f = [n \in 0..m |-> Keep(f, n)]
<1>1. size \in Nat /\ \A n \in 1..size : list[n] \in HookSpec
  BY LenProperties, ElementOfSeq
<1> HIDE DEF size
<1>2. \E f : Keeps(f, size)
  <2> DEFINE these == {m \in Nat : \E f : Keeps(f, m)}
  <2>1. 0 \in these
    <3>1. Keeps([n \in 0..0 |-> <<>>], 0)
      OBVIOUS
    <3> QED
      BY <3>1
  <2>2. ASSUME NEW m \in these PROVE m + 1 \in these
    <3>1. PICK f : Keeps(f, m)
      OBVIOUS
    <3> HIDE DEF Gone
    <3> DEFINE g == [n \in 0..(m + 1) |-> IF n = m + 1 THEN Keep(f, m + 1) ELSE f[n]]
    <3>2. \A n \in 0..(m + 1) : n # 0 => n - 1 \in 0..m /\ g[n - 1] = f[n - 1]
      OBVIOUS
    <3>3. \A n \in 0..m : f[n] = Keep(f, n)
      BY <3>1
    <3>4. \A n \in 0..(m + 1) : g[n] = Keep(f, n) /\ Keep(f, n) = Keep(g, n)
      BY <3>2, <3>3
    <3>5. Keeps(g, m + 1)
      BY <3>4
    <3> HIDE DEF g, Keeps
    <3> QED
      BY <3>5
  <2>3. these = Nat
    <3> HIDE DEF these
    <3> QED
      BY <2>1, <2>2, Induction DEF these
  <2> QED
    BY <1>1, <2>3
<1> DEFINE kept == CHOOSE f : Keeps(f, size)
<1>3. Keeps(kept, size)
  <2> HIDE DEF Keeps
  <2> QED
    BY <1>2
<1>4. Without(list, name, agent) = kept[size]
  BY DEF Without, size
<1> HIDE DEF kept, Gone
<1>5. kept[0] = <<>> /\ \A n \in 1..size : kept[n] = IF Gone(n) THEN kept[n - 1] ELSE Append(kept[n - 1], list[n])
  <2>1. \A n \in 0..size : kept[n] = Keep(kept, n)
    BY <1>3
  <2>2. 0 \in 0..size /\ \A n \in 1..size : n \in 0..size /\ n # 0
    BY <1>1
  <2> HIDE DEF Keeps
  <2> QED
    BY <2>1, <2>2
<1> HIDE DEF Keeps, Keep
<1> DEFINE lists == {n \in Nat : n <= size => kept[n] \in Seq(HookSpec)}
<1>6. 0 \in lists
  <2>1. kept[0] = <<>>
    BY <1>5
  <2>2. <<>> \in Seq(HookSpec)
    OBVIOUS
  <2>3. kept[0] \in Seq(HookSpec)
    BY <2>1, <2>2, Zenon
  <2> QED
    BY <2>3
<1>7. ASSUME NEW n \in lists PROVE n + 1 \in lists
  <2> SUFFICES ASSUME n + 1 <= size PROVE kept[n + 1] \in Seq(HookSpec)
    OBVIOUS
  <2>1. n \in Nat /\ n + 1 \in 1..size /\ (n + 1) - 1 = n /\ kept[n] \in Seq(HookSpec)
    BY <1>1
  <2>2. kept[n + 1] = IF Gone(n + 1) THEN kept[n] ELSE Append(kept[n], list[n + 1])
    BY <1>5, <2>1
  <2>3. list[n + 1] \in HookSpec
    BY <1>1, <2>1
  <2> QED
    BY <2>1, <2>2, <2>3, AppendProperties
<1>8. size \in lists
  <2> HIDE DEF lists
  <2> QED
    BY <1>1, <1>6, <1>7, Induction DEF lists
<1> QED
  BY <1>1, <1>4, <1>8

(* What a command makes of the registry of hooks.                           *)
LEMMA HooksTyped ==
    ASSUME hooks \in Seq(HookSpec), NEW tool, HookCommand(tool)
    PROVE  hooks' \in Seq(HookSpec)
<1>1. ASSUME NEW agent \in Agents \cup {None}, NEW file \in HookFiles, AddHook("add", agent, file)
      PROVE  hooks' \in Seq(HookSpec)
  <2> DEFINE declared == IF file.declares = None THEN <<>>
                         ELSE <<Hook(file.declares, None, file.acts)>>
             added == Hook("add", agent, file.acts)
  <2>1. file.acts \in Acts /\ (file.declares # None => file.declares \in Events)
    BY HookFilesAssumption
  <2>3. added \in HookSpec
    BY <2>1 DEF Hook, HookSpec
  <2>4. declared \in Seq(HookSpec)
    <3>1. CASE file.declares = None
      BY <3>1
    <3>2. CASE file.declares # None
      <4>1. Hook(file.declares, None, file.acts) \in HookSpec
        BY <2>1, <3>2 DEF Hook, HookSpec
      <4> QED
        BY <3>2, <4>1
    <3> QED
      BY <3>1, <3>2
  <2>5. hooks' = (hooks \o declared) \o <<added>>
    BY <1>1 DEF AddHook
  <2>6. <<added>> \in Seq(HookSpec)
    BY <2>3
  <2> HIDE DEF declared, added
  <2>7. hooks \o declared \in Seq(HookSpec)
    BY <2>4, ConcatProperties
  <2> QED
    BY <2>5, <2>6, <2>7, ConcatProperties
<1>2. ASSUME NEW agent \in Agents, RemoveHook("remove", agent)
      PROVE  hooks' \in Seq(HookSpec)
  BY <1>2, HooksRemain DEF RemoveHook
<1>3. CASE ClearHooks
  BY <1>3 DEF ClearHooks
<1> QED
  BY <1>1, <1>2, <1>3 DEF HookCommand

(* What a command makes of the table of runs.                               *)
LEMMA RunsTyped ==
    ASSUME runs \in [RunIds -> SubagentRun \cup {None}], waiting \in {None, "hooks", "server"},
           NEW tool, SubagentCommand(tool)
    PROVE  runs' \in [RunIds -> SubagentRun \cup {None}] /\ waiting' \in {None, "hooks", "server"}
<1>1. ASSUME NEW id \in RunIds, NEW agent \in Agents, SpawnSubagent(id, agent)
      PROVE  runs' \in [RunIds -> SubagentRun \cup {None}]
  <2>1. Run(agent) \in SubagentRun
    BY DEF Run, SubagentRun
  <2> QED
    BY <1>1, <2>1 DEF SpawnSubagent
<1>2. ASSUME NEW id \in RunIds, StopSubagent(id)
      PROVE  runs' \in [RunIds -> SubagentRun \cup {None}]
  <2>1. CASE runs[id] = None
    BY <1>2, <2>1 DEF StopSubagent
  <2>2. CASE runs[id] # None
    <3>1. runs[id] \in SubagentRun
      BY <2>2
    <3>2. [runs[id] EXCEPT !.status = "stopped"] \in SubagentRun
      BY <3>1 DEF SubagentRun
    <3>3. runs' = [runs EXCEPT ![id] = [runs[id] EXCEPT !.status = "stopped"]]
      BY <1>2, <2>2 DEF StopSubagent
    <3> QED
      BY <3>2, <3>3
  <2> QED
    BY <2>1, <2>2
<1>3. ASSUME NEW id \in RunIds, NEW result \in Results, ReturnSubagentResult(id, result)
      PROVE  runs' \in [RunIds -> SubagentRun \cup {None}]
  <2>1. CASE runs[id] = None
    BY <1>3, <2>1 DEF ReturnSubagentResult
  <2>2. CASE runs[id] # None
    <3>1. runs[id] \in SubagentRun
      BY <2>2
    <3>2. [runs[id] EXCEPT !.status = "returned", !.result = result] \in SubagentRun
      BY <3>1 DEF SubagentRun
    <3>3. runs' = [runs EXCEPT ![id] = [runs[id] EXCEPT !.status = "returned", !.result = result]]
      BY <1>3, <2>2 DEF ReturnSubagentResult
    <3> QED
      BY <3>2, <3>3
  <2> QED
    BY <2>1, <2>2
<1> QED
  BY <1>1, <1>2, <1>3 DEF SubagentCommand

(* A server whose tools are known.                                          *)
LEMMA ServerListed == ASSUME NEW c \in MCPClient PROVE [c EXCEPT !.listed = TRUE] \in MCPClient
BY DEF MCPClient

(* What a command makes of the table of servers.                            *)
LEMMA ServersTyped ==
    ASSUME servers \subseteq MCPClient, waiting \in {None, "hooks", "server"},
           NEW tool, McpCommand(tool)
    PROVE  servers' \subseteq MCPClient /\ waiting' \in {None, "hooks", "server"}
<1>1. ASSUME NEW name \in ServerNames, NEW transport \in {"http", "stdio"},
             RegisterServer(name, transport)
      PROVE  servers' \subseteq MCPClient
  <2>1. [name |-> name, transport |-> transport, listed |-> FALSE] \in MCPClient
    BY DEF MCPClient
  <2> QED
    BY <1>1, <2>1 DEF RegisterServer
<1>2. ASSUME NEW name \in ServerNames, UnregisterServer(name)
      PROVE  servers' \subseteq MCPClient
  BY <1>2 DEF UnregisterServer
<1>3. ASSUME ListTools PROVE servers' \subseteq MCPClient
  <2> DEFINE Listed(c) == [c EXCEPT !.listed = TRUE]
  <2>1. PICK answered \in SUBSET servers :
          servers' = (servers \ answered) \cup {Listed(c) : c \in answered}
    BY <1>3 DEF ListTools
  <2>2. ASSUME NEW c \in answered PROVE Listed(c) \in MCPClient
    <3>1. c \in MCPClient
      BY <2>1
    <3> QED
      BY <3>1, ServerListed
  <2> HIDE DEF Listed
  <2> QED
    BY <2>1, <2>2
<1> QED
  BY <1>1, <1>2, <1>3 DEF McpCommand

(* The steps of a line are typed because they are guarded, the conversation *)
(* because it is in turn; what the registries hold, by their commands.      *)
LEMMA ReplTypesLast ==
    ASSUME ReplTypeOK, GateInv', TranscriptInv', [ReplNext]_replVars
    PROVE  ReplTypeOK'
<1>1. /\ mode \in Modes /\ hooks \in Seq(HookSpec)
      /\ runs \in [RunIds -> SubagentRun \cup {None}] /\ servers \subseteq MCPClient
      /\ loaded \in BOOLEAN /\ blocked \in BOOLEAN
      /\ line \in [cmd : Words, tool : Tools] \cup {None}
      /\ did \in [tool : Tools, cmd : Words, mode : Modes, blocked : BOOLEAN] \cup {None}
      /\ waiting \in {None, "hooks", "server"} /\ todo \in Seq([op : StepOps, tool : Tools])
  BY DEF ReplTypeOK
<1>2. /\ todo' \in Seq([op : StepOps, tool : Tools]) /\ conv' \in Seq({"user", "assistant"})
      /\ vault' = None \/ vault' \in Seq({"user", "assistant"})
  <2>1. /\ todo' \in Seq(Todo) /\ conv' \in Seq({"user", "assistant"})
        /\ vault' = None \/ vault' = conv' \/ vault' = <<>>
    BY DEF GateInv, TranscriptInv
  <2>2. <<>> \in Seq({"user", "assistant"})
    OBVIOUS
  <2> QED
    BY <2>1, <2>2 DEF Todo
<1> DEFINE Registries == /\ mode' \in Modes /\ hooks' \in Seq(HookSpec)
                         /\ runs' \in [RunIds -> SubagentRun \cup {None}]
                         /\ servers' \subseteq MCPClient
           Served == /\ loaded' \in BOOLEAN /\ blocked' \in BOOLEAN
                     /\ line' \in [cmd : Words, tool : Tools] \cup {None}
                     /\ did' \in [tool : Tools, cmd : Words, mode : Modes, blocked : BOOLEAN] \cup {None}
                     /\ waiting' \in {None, "hooks", "server"}
<1>3. SUFFICES Registries /\ Served
  BY <1>2 DEF ReplTypeOK
<1>4. UNCHANGED registries => Registries
  BY <1>1 DEF registries
<1>5. UNCHANGED <<loaded, line, blocked, did, waiting>> => Served
  BY <1>1
<1>6. End => Served
  BY <1>1 DEF End
<1> HIDE DEF Registries
<1>7. ASSUME NEW cmd \in DOMAIN Commands, NEW tool \in Commands[cmd], Command(cmd, tool)
      PROVE  Registries /\ Served
  <2>1. UNCHANGED <<registries, loaded, blocked, did, waiting>> /\ line' = [cmd |-> cmd, tool |-> tool]
    BY <1>7 DEF Command
  <2>2. cmd \in Words /\ tool \in Tools
    BY CommandNames
  <2> QED
    BY <1>1, <1>4, <2>1, <2>2
<1>8. CASE Clear
  BY <1>4, <1>5, <1>8 DEF Clear
<1>9. CASE Quit \/ Raise \/ Interrupt
  <2>1. End
    BY <1>9 DEF Quit, Raise, Interrupt
  <2> QED
    BY <1>4, <1>6, <2>1 DEF End
<1>10. CASE Turn
  <2>1. /\ UNCHANGED <<registries, loaded, blocked, waiting>>
        /\ line' = [cmd |-> "say", tool |-> "chat"]
        /\ did' \in {None, [tool |-> "memory_store", cmd |-> "say", mode |-> mode, blocked |-> FALSE]}
    BY <1>10 DEF Turn
  <2>2. "say" \in Words /\ "chat" \in Tools
    BY TurnTools DEF Words
  <2>3. "memory_store" \in Tools
    <3>1. "memory_store" \in Commands["memory"] /\ "memory" \in DOMAIN Commands
      BY DEF Commands
    <3> QED
      BY <3>1, CommandNames
  <2>4. FALSE \in BOOLEAN
    BY Zenon
  <2>5. [tool |-> "memory_store", cmd |-> "say", mode |-> mode, blocked |-> FALSE]
           \in [tool : Tools, cmd : Words, mode : Modes, blocked : BOOLEAN]
    BY <1>1, <2>2, <2>3, <2>4
  <2>6. did' \in [tool : Tools, cmd : Words, mode : Modes, blocked : BOOLEAN] \cup {None}
    BY <2>1, <2>5
  <2>7. line' \in [cmd : Words, tool : Tools] \cup {None}
    BY <2>1, <2>2
  <2> QED
    BY <1>1, <1>4, <2>1, <2>6, <2>7
<1>11. CASE GateStep
  <2>1. UNCHANGED <<registries, loaded, line, did>>
    BY <1>11 DEF GateStep
  <2>2. blocked' = blocked \/ blocked' = (blocked \/ Blocked)
    BY <1>11 DEF GateStep
  <2>3. blocked' \in BOOLEAN
    BY <1>1, <2>2 DEF Blocked
  <2>4. waiting' \in {waiting, "hooks", None}
    BY <1>11 DEF GateStep
  <2> QED
    BY <1>1, <1>4, <2>1, <2>3, <2>4
<1>12. CASE RunStep
  <2>1. UNCHANGED <<loaded, line, blocked>> /\ line # None /\ todo # <<>>
        /\ did' = [tool |-> Current, cmd |-> line.cmd, mode |-> mode, blocked |-> blocked]
    BY <1>12 DEF RunStep, At, Running
  <2>2. Current \in Tools /\ line.cmd \in Words
    <3>1. Head(todo) \in [op : StepOps, tool : Tools]
      BY <1>1, <2>1, HeadTailProperties
    <3> QED
      BY <1>1, <2>1, <3>1 DEF Current
  <2>3. did' \in [tool : Tools, cmd : Words, mode : Modes, blocked : BOOLEAN]
    BY <1>1, <2>1, <2>2
  <2>4. Registries /\ waiting' \in {None, "hooks", "server"}
    <3>1. CASE HookCommand(Current)
      BY <1>1, <3>1, HooksTyped DEF HookCommand, Registries
    <3>2. CASE SubagentCommand(Current)
      BY <1>1, <3>2, RunsTyped DEF SubagentCommand, Registries
    <3>3. CASE PermissionCommand(Current)
      BY <1>1, <3>3 DEF PermissionCommand, SetMode, Registries
    <3>4. CASE McpCommand(Current)
      BY <1>1, <3>4, ServersTyped DEF McpCommand, Registries
    <3>5. CASE UNCHANGED <<registries, waiting>>
      BY <1>1, <1>4, <3>5
    <3> QED
      BY <1>12, <3>1, <3>2, <3>3, <3>4, <3>5 DEF RunStep
  <2> QED
    BY <1>1, <2>1, <2>3, <2>4
<1>13. CASE PostStep
  <2>1. UNCHANGED <<registries, loaded, line, blocked, did>> /\ waiting' \in {None, "hooks"}
    BY <1>13 DEF PostStep
  <2> QED
    BY <1>1, <1>4, <2>1
<1>14. CASE Answer
  BY <1>4, <1>5, <1>6, <1>14 DEF Answer, End
<1>15. CASE Reply
  <2>1. UNCHANGED <<registries, loaded, waiting>> /\ line' = None /\ blocked' = FALSE /\ did' = None
    BY <1>15 DEF Reply
  <2>2. blocked' \in BOOLEAN
    BY <2>1, Zenon
  <2> QED
    BY <1>1, <1>4, <2>1, <2>2
<1>16. CASE InterruptServer
  <2>1. UNCHANGED <<registries, loaded, line, blocked, did>> /\ waiting' = None
    BY <1>16 DEF InterruptServer
  <2> QED
    BY <1>1, <1>4, <2>1
<1>17. CASE UNCHANGED replVars
  BY <1>4, <1>5, <1>17 DEF replVars, registries
<1> HIDE DEF Served
<1> QED
  BY <1>7, <1>8, <1>9, <1>10, <1>11, <1>12, <1>13, <1>14, <1>15, <1>16, <1>17 DEF ReplNext

(* The queue holds prompts, whoever adds them and whoever takes them.       *)
LEMMA PromptsLast ==
    ASSUME queue \in Seq({"beat", "mark"}), main \in {"next", "serve", "join", "leave", "ended"},
           [QueueNext]_queueVars
    PROVE  /\ queue' \in Seq({"beat", "mark"})
           /\ main' \in {"next", "serve", "join", "leave", "ended"}
<1>1. CASE NextPrompt
  <2>1. main' = "serve" /\ queue' = IF queue = <<>> THEN queue ELSE Tail(queue)
    BY <1>1 DEF NextPrompt
  <2> QED
    BY <2>1, HeadTailProperties
<1>2. CASE ServeOther
  BY <1>2 DEF ServeOther
<1>3. CASE AddPrompt
  BY <1>3, AppendProperties DEF AddPrompt
<1>4. CASE ClearQueue
  BY <1>4 DEF ClearQueue
<1>5. ASSUME NEW h \in Heartbeats, SetHeartbeat(h) \/ StopHeartbeat(h)
      PROVE  queue' = queue /\ main' \in {"next", "join"}
  BY <1>5 DEF SetHeartbeat, StopHeartbeat
<1>6. CASE Joined \/ InterruptJoin \/ Leave \/ LeaveJoined
  BY <1>6 DEF Joined, InterruptJoin, Leave, LeaveJoined
<1>7. ASSUME NEW h \in Heartbeats, Check(h) \/ Woken(h) \/ Elapsed(h)
      PROVE  UNCHANGED <<queue, main>>
  BY <1>7 DEF Check, Woken, Elapsed, BeatTo
<1>8. ASSUME NEW h \in Heartbeats, Beat(h)
      PROVE  queue' \in Seq({"beat", "mark"}) /\ main' = main
  <2>1. main' = main /\ queue' = IF beats[h].stale THEN queue ELSE Append(queue, "beat")
    BY <1>8 DEF Beat
  <2> QED
    BY <2>1, AppendProperties
<1>9. CASE UNCHANGED queueVars
  BY <1>9 DEF queueVars
<1> QED
  BY <1>1, <1>2, <1>3, <1>4, <1>5, <1>6, <1>7, <1>8, <1>9 DEF QueueNext, Main, Thread

(* What holds of the two programs beside each other.                        *)
TerminalInv == ReplTypeOK /\ GateInv /\ TranscriptInv /\ QueueTypeOK /\ HeartbeatInv

(* The types of both hold of both beside each other: what is registered,    *)
(* runs, is said, queued and beats, for any hooks, agents, runs, servers    *)
(* and heartbeats. (repl.py 1265, cli.py 327)                               *)
THEOREM TerminalTypesHold == TerminalSpec => []TerminalTypeOK
<1>1. TerminalInit => TerminalInv
  <2> SUFFICES ASSUME TerminalInit PROVE TerminalInv
    OBVIOUS
  <2>1. ReplInit /\ QueueInit
    BY DEF TerminalInit
  <2>2. GateInv /\ TranscriptInv /\ HeartbeatInv
    BY <2>1, GateStarts, TranscriptStarts, QueueStarts
  <2>3. ReplTypeOK
    <3>1. runs \in [RunIds -> SubagentRun \cup {None}]
      BY <2>1 DEF ReplInit
    <3>2. blocked \in BOOLEAN /\ loaded \in BOOLEAN
      BY <2>1, Zenon DEF ReplInit
    <3> QED
      BY <2>1, <3>1, <3>2 DEF ReplInit, ReplTypeOK, Modes
  <2>4. QueueTypeOK
    BY <2>1, <2>2 DEF QueueInit, QueueTypeOK, HeartbeatInv, HeartbeatTypes
  <2> QED
    BY <2>2, <2>3, <2>4 DEF TerminalInv
<1>2. TerminalInv /\ [TerminalNext]_<<part, replVars, queueVars>> => TerminalInv'
  <2> SUFFICES ASSUME TerminalInv, [TerminalNext]_<<part, replVars, queueVars>> PROVE TerminalInv'
    OBVIOUS
  <2>1. [ReplNext]_replVars /\ [QueueNext]_queueVars
    BY DEF TerminalNext
  <2>2. GateInv' /\ TranscriptInv'
    BY <2>1, GateSteps, TranscriptSteps DEF TerminalInv
  <2>3. ReplTypeOK'
    BY <2>1, <2>2, ReplTypesLast DEF TerminalInv
  <2>4. HeartbeatInv'
    BY <2>1, HeartbeatSteps DEF TerminalInv
  <2>5. queue \in Seq({"beat", "mark"}) /\ main \in {"next", "serve", "join", "leave", "ended"}
    BY DEF TerminalInv, QueueTypeOK
  <2>6. QueueTypeOK'
    BY <2>1, <2>4, <2>5, PromptsLast DEF QueueTypeOK, HeartbeatInv, HeartbeatTypes
  <2> QED
    BY <2>2, <2>3, <2>4, <2>6 DEF TerminalInv
<1>3. TerminalInv => TerminalTypeOK
  BY DEF TerminalInv, TerminalTypeOK
<1> QED
  BY <1>1, <1>2, <1>3, PTL DEF TerminalSpec

(* And so does what each of them promises: approval, the transcript and the *)
(* plan mode that only analyses, and the silence of stopped heartbeats.     *)
(* (repl.py 299, 1265, permission.py 59, cli/session.py 290)               *)
THEOREM TerminalStaysSafe ==
    TerminalSpec =>
        /\ [](GatedToolsNeedApproval /\ TranscriptIsTheConversation /\ StoppedHeartbeatsFallSilent)
        /\ PlanModeOnlyAnalyses
<1>1. TerminalInit => ReplInit /\ QueueInit
  BY DEF TerminalInit
<1>2. [TerminalNext]_<<part, replVars, queueVars>> => [ReplNext]_replVars /\ [QueueNext]_queueVars
  BY DEF TerminalNext
<1>3. GateInv /\ TranscriptInv /\ HeartbeatInv =>
        GatedToolsNeedApproval /\ TranscriptIsTheConversation /\ StoppedHeartbeatsFallSilent
  <2>1. GateInv => GatedToolsNeedApproval
    BY DEF GateInv
  <2>2. TranscriptInv => TranscriptIsTheConversation
    BY TranscriptSays
  <2>3. HeartbeatInv => StoppedHeartbeatsFallSilent
    BY HeartbeatSays
  <2> QED
    BY <2>1, <2>2, <2>3
<1>4. (GateInv /\ [ReplNext]_replVars) =>
        [loaded /\ mode = "plan" =>
           /\ UNCHANGED <<hooks, runs, servers>>
           /\ \/ did' \in {None, did}
              \/ did'.tool \in Commands.permission
              \/ did'.tool = "memory_store" /\ did'.cmd = "say"]_replVars
  BY PlanModeRunsNothing DEF registries
<1> QED
  BY <1>1, <1>2, <1>3, <1>4, GateStarts, GateSteps, TranscriptStarts, TranscriptSteps, QueueStarts,
     HeartbeatSteps, PTL DEF TerminalSpec, PlanModeOnlyAnalyses
=============================================================================

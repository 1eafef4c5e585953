----------------------------- MODULE MCGuarding -----------------------------
\* Guarding with an editor of each kind, as they were measured to send
\* (fixtures/multiagent): two files of the user's, a rule file, a file the tool
\* keeps, a draft beside them, and three sets of rules.
EXTENDS Guarding, TLC

CONSTANTS i1, i2, main, util, yaml, state, draft

TwoSlots == {i1, i2}
SlotSymmetry == Permutations(TwoSlots)

Editor == "s1" :> "claude" @@ "s2" :> "cursor"
Payload == "s1" :> [session_id |-> "s1", transcript_path |-> "t", event |-> "upper",
                    permission_mode |-> "default"]
        @@ "s2" :> [session_id |-> "s2", conversation_id |-> "s2", event |-> "lower",
                    cursor_version |-> "1"]

Where == main :> [dir |-> Null, name |-> "main", ext |-> "ts"] @@ util :> [dir |-> Null, name |-> "util", ext |-> "ts"]
      @@ yaml :> [dir |-> "", name |-> "policy", ext |-> "yaml"]
      @@ state :> [dir |-> "", name |-> "session.json", ext |-> "json"]
      @@ draft :> [dir |-> "claims", name |-> "draft", ext |-> "json"]

Call(tool, target) == [tool |-> tool, target |-> target]
Command(net, dels, id, kind) == [net |-> net, dels |-> dels, id |-> id, kind |-> kind]
Test == Command(FALSE, <<>>, "t", "test")
Removal == Command(FALSE, <<util, main>>, "d", "other")
Hidden == Command(TRUE, <<main, yaml, state, draft>>, "n", "network")

SomeUses == {<<"s1", Call("Bash", Test)>>, <<"s1", Call("Bash", Hidden)>>,
             <<"s1", Call("Write", util)>>, <<"s1", Call("Read", util)>>,
             <<"s2", Call("Shell", Removal)>>}

Policy(guard, always, actions, loop) ==
    [guard |-> guard, forbidAlways |-> always, protectAlways |-> {}, requireApprovalFor |-> {},
     forbidActions |-> actions, loopRepeatThreshold |-> loop]
SomeRules == {[policy |-> Policy("block", {main}, {}, 2), contract |-> Null],
              [policy |-> Policy("block", {}, {"network"}, 2), contract |-> {main}],
              [policy |-> Broken, contract |-> Broken]}

Covered == {"Bash", "Read", "Write", "Edit"}
Matchers == "claude" :> Covered @@ "cursor" :> Covered \cup {"Shell"}

\* A probe for every tool, an older matcher beside a command of the user's own,
\* and that command alone.
Entries == {<<"claude", [cmds |-> {Ours("pre", "auto")}, matcher |-> Null]>>,
            <<"cursor", [cmds |-> {Ours("pre", "auto")}, matcher |-> Null]>>,
            <<"claude", [cmds |-> {Ours("pre", "auto"), <<"mine">>}, matcher |-> {"Bash", "Write"}]>>,
            <<"claude", [cmds |-> {<<"mine">>}, matcher |-> Null]>>}
=============================================================================

------------------------- MODULE MCConversationTurn -------------------------
(* Instances of ConversationTurn for TLC.                                  *)
EXTENDS ConversationTurn

MCCallIds == {"tool1", "tool2", "skill", "unknown"}

MCCallLists == {<<"tool1">>, <<"tool1", "tool2">>, <<"tool1", "skill">>, <<"unknown">>}

\* A turn with two results, one of them large, and a turn without a call.
Talk == << User(Past, 1), Calling(Past, <<"tool1", "tool2">>), Answer(Past, "tool1", 1),
           Answer(Past, "tool2", 4), Reply(Past), User(Past, 1), Reply(Past) >>

MCHistories == {<<>>, Talk, SubSeq(Talk, 1, 5)}

\* For turns that overlap: fewer calls to choose from.
FewCallLists == {<<"tool1", "tool2">>, <<"skill">>}
JustTalk     == {SubSeq(Talk, 1, 5)}
=============================================================================

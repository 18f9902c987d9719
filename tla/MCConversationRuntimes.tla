----------------------- MODULE MCConversationRuntimes -----------------------
EXTENDS ConversationRuntimes
CONSTANTS s1, s2
MCSessions == {s1, s2}
Pair == <<s1, s1>>
OneSession == {s1}
Single == <<s1>>
PairCross == <<s1, s2>>
=============================================================================

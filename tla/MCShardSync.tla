---------------------------- MODULE MCShardSync ----------------------------
EXTENDS ShardSync

CONSTANTS s1, s2

\* Shards are gained, kept and lost, with time to lag behind again during a recovery;
\* or the node leaves the committee and joins it again with another shard.
LongHistories ==
  {<<{s1}, {s1, s2}, {s1, s2}, {s2}, {s2}>>,
   <<{s1}, {s1, s2}, {s1, s2}, {s1, s2}, {s1, s2}>>,
   <<{s1}, {s1}, {}, {}, {s2}>>}

\* Histories in which properties that do not hold are refuted: two shards gained at once.
GainTwo == {<<{}, {s1, s2}>>}

\* One shard after the other.
JoinThenGain == {<<{}, {s1}, {s1, s2}>>}

\* A shard that is lost and regained.
Regain == {<<{s1}, {s1, s2}, {s1}, {s1, s2}>>}

\* A shard that is lost and comes back with the next epoch change.
ComeBack == {<<{s1}, {}, {s1}>>}

\* A shard that is kept while the node lags behind.
Keep == {<<{s1}, {s1, s2}, {s1, s2}, {s1, s2}>>}
============================================================================

---------------------------- MODULE MCSearchEngine ----------------------------
(* An instance of SearchEngine for TLC: a public provider in memory and the    *)
(* two web providers, naver with one retry.                                   *)
EXTENDS SearchEngine

MCOrder == <<"weather", "naver", "kakao">>
MCTargets == {"naver", "kakao"}
MCType == [p \in {"weather", "naver", "kakao"} |->
              IF p = "weather" THEN "public" ELSE "web"]
MCStanding == [p \in {"weather", "naver", "kakao"} |->
                  CASE p = "weather" -> 1 [] p = "naver" -> 2 [] OTHER -> 3]
MCTries == [p \in {"weather", "naver", "kakao"} |-> IF p = "naver" THEN 2 ELSE 1]

(* Every second weight is a step of freshness. *)
Doc(id, p, key, w) ==
    [id |-> id, provider |-> p, key |-> key, authority |-> w \div 2, weight |-> w]

(* a twice at naver, under two addresses of one URL, and once at kakao: as     *)
(* heavy as the one, lighter than the other.                                  *)
MCDocs == {Doc(1, "kakao", "a", 6), Doc(2, "kakao", "c", 6),
           Doc(3, "naver", "a", 6), Doc(4, "naver", "a", 7),
           Doc(5, "naver", "b", 9), Doc(6, "weather", "w", 9)}

(* No document of merit, or one. *)
MCMerits == {[d \in MCDocs |-> IF d = e THEN 30 ELSE 0] : e \in MCDocs}
              \cup {[d \in MCDocs |-> 0]}

MCUnit == 61 * 63 * 64 * 31  \* a multiple of 61..64
=============================================================================

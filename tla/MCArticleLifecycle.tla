-------------------------- MODULE MCArticleLifecycle --------------------------
(* Model-checking instances of ArticleLifecycle. *)
EXTENDS ArticleLifecycle, TLC

Interchangeable == Permutations(Jobs) \cup Permutations(Workers) \cup Permutations(Reviewers)
=============================================================================

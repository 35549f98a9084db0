-------------------------- MODULE MCTrackDialogue --------------------------
(* An instance of TrackDialogue for TLC: a host under GitHub's, one that only *)
(* looks like GitHub's, and a page of StackOverflow that is not a question.   *)
EXTENDS TrackDialogue

MCUrls == {"gist", "mirror", "page"}
MCShape == [u \in MCUrls |->
              CASE u = "gist" -> [scheme |-> "https", host |-> <<"gist.", "github.com">>,
                                  path |-> <<"owner", "repo">>]
                [] u = "mirror" -> [scheme |-> "https", host |-> <<"my", "github.com">>,
                                    path |-> <<"owner", "repo">>]
                [] u = "page" -> [scheme |-> "https", host |-> <<"stackoverflow.com">>,
                                  path |-> <<"questions", "tagged">>]]
===========================================================================

------------------------------ MODULE MCLikes ------------------------------
EXTENDS Likes, TLC

CONSTANTS p1, c1

\* The one comment is a comment to the one post.
MCPostOf == c1 :> p1
=============================================================================

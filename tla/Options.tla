------------------------------ MODULE Options ------------------------------
CONSTANT None   \* the None of every Option<T>
=============================================================================

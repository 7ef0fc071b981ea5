------------------------- MODULE MCProviderStreams -------------------------
EXTENDS ProviderStreams

MCAnswers ==
  {<<"reasoning", "function_call">>, <<"message", "function_call", "function_call">>,
   <<"bare_message", "message">>, <<"web_search_call", "bare_message">>,
   <<"code_interpreter_call", "image_generation_call">>,
   <<"file_search_call", "local_shell_call">>, <<"computer_call", "reasoning">>}

MCSearchName == <<"lookup">>

MCCallTotals == {<< >>, <<0>>, <<1, 2>>, <<2, 1>>}

MCCodexAnswers ==
  {<<"summary">>, <<"function_call", "function_call">>, <<"message", "function_call">>,
   <<"reasoning_text", "web_search_call">>, <<"summary_no_start", "reasoning_empty">>}
=============================================================================

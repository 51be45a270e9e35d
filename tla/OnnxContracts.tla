----------------------------- MODULE OnnxContracts -----------------------------
(***************************************************************************)
(* The contracts of the two models: what loading a session, the pinned     *)
(* contract of the deployment and the constructors of detector and         *)
(* recognizer demand of a model's descriptors, and what each inference     *)
(* demands again of the tensors it sees.  A descriptor is                  *)
(* [name, element_type, shape], -1 in a shape is a dimension left open;    *)
(* element_type is "none" for a node that is not a tensor.  A model is     *)
(* [inputs, outputs], sequences of descriptors.                            *)
(***************************************************************************)
EXTENDS LprNetTensors, YoloPose

Elements(shape) == FoldFunction(LAMBDA d, n : d * n, 1, shape)

-----------------------------------------------------------------------------
(* OnnxSession.                                                            *)

\* validate_descriptor_budget multiplies up to the first dimension left open.
WithinBudget(shape, maximum) ==
    \A n \in DOMAIN shape :
        (\A i \in 1..n : shape[i] > 0) => Elements(SubSeq(shape, 1, n)) <= maximum

SessionLoads(model, maximum) ==
    /\ model.inputs # <<>> /\ model.outputs # <<>>
    /\ \A d \in Range(model.inputs) \cup Range(model.outputs) :
           d.element_type # "none" /\ WithinBudget(d.shape, maximum)

\* What run demands of the tensors going in and coming out.
RunAccepts(shapes, maximum) == \A i \in DOMAIN shapes : Elements(shapes[i]) <= maximum

-----------------------------------------------------------------------------
(* The factory's checks against the pinned contract.                       *)

\* descriptor_named: the first of that name, if there is one.
Named(descriptors, name) ==
    {descriptors[i] : i \in {j \in DOMAIN descriptors :
        /\ descriptors[j].name = name
        /\ \A k \in 1..(j - 1) : descriptors[k].name # name}}

DetectorInputAccepted(d) ==
    /\ d.element_type = "float" /\ Len(d.shape) = 4
    /\ d.shape[1] = 1 /\ d.shape[2] = 3 /\ d.shape[3] > 0 /\ d.shape[4] > 0

FloatBatchOne(d) == d.element_type = "float" /\ Len(d.shape) = 3 /\ d.shape[1] = 1

DetectorOutputAccepted(d, layout, features, candidates) ==
    /\ FloatBatchOne(d)
    /\ Tail(d.shape) = IF layout = "features_first" THEN <<features, candidates>>
                                                    ELSE <<candidates, features>>

\* Mutant: the number of timesteps is not compared.
OcrClassesAccepted(d, layout, classes, timesteps) ==
    /\ FloatBatchOne(d)
    /\ ClassCount(layout, d.shape) = classes
OcrOutputAccepted(d, layout, classes, timesteps) ==
    /\ FloatBatchOne(d)
    /\ ClassCount(layout, d.shape) = classes /\ TimestepCount(layout, d.shape) = timesteps

-----------------------------------------------------------------------------
(* The constructors' checks: YoloPoseOnnxDetector::validate_contract and   *)
(* GenericOnnxOcrRecognizer::validate_contract.                            *)

YoloContractValid(model, input_name, output_name, width, height) ==
    \E input \in Named(model.inputs, input_name), output \in Named(model.outputs, output_name) :
        /\ DetectorInputAccepted(input)
        /\ input.shape[3] = height /\ input.shape[4] = width
        /\ FloatBatchOne(output)

RecognizerContractValid(model, input_names, output_names) ==
    LET declared(names, descriptors) ==
            /\ names # <<>> /\ IsInjective(names)
            /\ \A i \in DOMAIN names : Named(descriptors, names[i]) # {}
    IN  declared(input_names, model.inputs) /\ declared(output_names, model.outputs)

-----------------------------------------------------------------------------
(* build_pipeline_from_contract, for the models a contract names.          *)

BuildsDetector(model, contract, spec, maximum) ==
    /\ SessionLoads(model, maximum) /\ ValidSpec(spec)
    /\ \E input \in Named(model.inputs, contract.input_name),
          output \in Named(model.outputs, contract.output_name) :
           /\ DetectorInputAccepted(input)
           /\ DetectorOutputAccepted(output, contract.layout, contract.features, contract.candidates)
           /\ YoloContractValid(model, contract.input_name, contract.output_name,
                                input.shape[4], input.shape[3])

BuildsRecognizer(model, contract, maximum) ==
    /\ SessionLoads(model, maximum)
    /\ \E input \in Named(model.inputs, contract.input_name),
          output \in Named(model.outputs, contract.output_name) :
           /\ MakeInputSpec(input, contract.color_order) # {}
           /\ OcrOutputAccepted(output, contract.layout, contract.classes, contract.timesteps)
           /\ RecognizerContractValid(model, <<contract.input_name>>, <<contract.output_name>>)

-----------------------------------------------------------------------------
(* An inference that gets an output of some shape from the session.        *)

DetectAccepts(contract, spec, input_shape, output_shape, maximum) ==
    /\ RunAccepts(<<input_shape, output_shape>>, maximum)
    /\ Elements(output_shape) > 0
    /\ \E m \in ResolveMatrix(contract.layout, output_shape, Elements(output_shape)) :
           m.features >= RequiredFeatures(spec)

RecognizeAccepts(contract, input_shape, output_shape, maximum) ==
    /\ RunAccepts(<<input_shape, output_shape>>, maximum)
    /\ DecodeAccepts(contract.layout, output_shape, Elements(output_shape), contract.charset)
===============================================================================
